---- MODULE Spec2Model ----
(***************************************************************************)
(* JasonDB: the log-structured storage engine (jasondb/src).               *)
(*                                                                         *)
(* The log is modelled byte by byte: a source is a sequence of bytes       *)
(* (0..255), an entry is  [key_len u64 LE][key][val_len u64 LE][val],      *)
(* an offset is the number of bytes before an entry.  JSON text is the     *)
(* ASCII text the serialiser produces; reads parse that text again.        *)
(* HashMaps are functions, a secondary bucket (a Vec<u64> that never       *)
(* holds an offset twice, and that every reader sorts) is a set.           *)
(* Results are records: [ok |-> TRUE, val |-> v] or                        *)
(* [ok |-> FALSE, err |-> kind].  A function of the source whose body is a *)
(* chain of `let x = f()?;` steps is written as a chain of operators, one  *)
(* per step (name, name_1, name_2, ...), each taking the result of the     *)
(* step before it as a parameter.                                          *)
(***************************************************************************)
EXTENDS Integers, Sequences, FiniteSets, TLC

\* Number of operations in one behaviour.
MaxOps == 3

\* Width in bytes of a length prefix (usize/u64 to_le_bytes).
U64Bytes == 8

Ok(v) == [ok |-> TRUE, val |-> v]
Err(e) == [ok |-> FALSE, err |-> e]

Range(m) == {m[x] : x \in DOMAIN m}

\* HashMap::insert / HashMap::remove on a map modelled as a function.
insert(m, k, v) == [x \in (DOMAIN m) \union {k} |-> IF x = k THEN v ELSE m[x]]
remove(m, k) == [x \in (DOMAIN m) \ {k} |-> m[x]]

\* All orders in which the elements of a finite set can be enumerated
\* (the iteration order of a HashMap is unspecified).
Orders(S) ==
    {s \in [1..Cardinality(S) -> S] : \A i, j \in 1..Cardinality(S) : i # j => s[i] # s[j]}

(***************************************************************************)
(* Bytes.                                                                  *)
(***************************************************************************)
RECURSIVE le_bytes(_, _)
\* n.to_le_bytes(): the w low bytes of n, least significant first.
le_bytes(n, w) == IF w = 0 THEN <<>> ELSE <<n % 256>> \o le_bytes(n \div 256, w - 1)

\* A stand-in for every decoded length of 2^24 or more: larger than any
\* source of the model, so each bounds check has the outcome of the real value.
HugeLen == 256 * 256 * 256

\* u64::from_le_bytes on 8 bytes.
from_le_bytes(bs) ==
    IF \E i \in 4..U64Bytes : bs[i] # 0
    THEN HugeLen
    ELSE bs[1] + 256 * bs[2] + 256 * 256 * bs[3]

\* The bytes of one entry as write_entry lays them out.
entry_bytes(k, v) ==
    le_bytes(Len(k), U64Bytes) \o k \o le_bytes(Len(v), U64Bytes) \o v

\* size = k.len() + v.len() + 16
entry_size(k, v) == Len(k) + Len(v) + 2 * U64Bytes

(***************************************************************************)
(* JSON values and their text.                                             *)
(***************************************************************************)
JNull == [t |-> "null"]
JNum(x) == [t |-> "num", n |-> x]
JStr(c) == [t |-> "str", c |-> c]
JObj(y, n) == [t |-> "obj", f |-> [y |-> y, n |-> n]]

\* The four bytes  null : the delete marker.
NullText == <<110, 117, 108, 108>>

\* Serialisation of a scalar: a one-digit number, a one-character string, null.
scalar_text(v) ==
    CASE v.t = "num" -> <<48 + v.n>>
      [] v.t = "str" -> <<34, v.c, 34>>
      [] OTHER -> NullText

\* humphrey_json::to_string:  null  or  {"y":<y>,"n":<n>}
to_string(v) ==
    IF v.t = "obj"
    THEN <<123, 34, 121, 34, 58>> \o scalar_text(v.f.y)
         \o <<44, 34, 110, 34, 58>> \o scalar_text(v.f.n) \o <<125>>
    ELSE scalar_text(v)

\* Parsing of a scalar; fails on anything else.
parse_scalar(bs) ==
    IF bs = NullText THEN Ok(JNull)
    ELSE IF Len(bs) = 1 /\ bs[1] \in 48..57 THEN Ok(JNum(bs[1] - 48))
    ELSE IF Len(bs) = 3 /\ bs[1] = 34 /\ bs[3] = 34 /\ bs[2] # 34 THEN Ok(JStr(bs[2]))
    ELSE Err("JsonError")

parse_object_2(y, n) ==
    IF y.ok /\ n.ok THEN Ok(JObj(y.val, n.val)) ELSE Err("JsonError")

\* An object  {"y":<y>,"n":<n>}  whose first member's text is la bytes long.
parse_object_1(bs, la) ==
    IF /\ Len(bs) >= la + 12
       /\ SubSeq(bs, 1, 5) = <<123, 34, 121, 34, 58>>
       /\ SubSeq(bs, 6 + la, 10 + la) = <<44, 34, 110, 34, 58>>
       /\ bs[Len(bs)] = 125
    THEN parse_object_2(parse_scalar(SubSeq(bs, 6, 5 + la)),
                        parse_scalar(SubSeq(bs, 11 + la, Len(bs) - 1)))
    ELSE Err("JsonError")

\* The member texts of the model are 1 (digit), 3 (string) or 4 (null) bytes.
parse_object(a, b, c) == IF a.ok THEN a ELSE IF b.ok THEN b ELSE c

from_str_1(bs, scalar) ==
    IF scalar.ok THEN scalar
    ELSE parse_object(parse_object_1(bs, 1), parse_object_1(bs, 3), parse_object_1(bs, 4))

\* humphrey_json::from_str / Value::parse on the value bytes of an entry.
from_str(bs) == from_str_1(bs, parse_scalar(bs))

RECURSIVE get_value(_, _)
\* indexing::get_value: follow the segments of a dot-separated path; a missing
\* member (or a member of a non-object) is JSON null.
get_value(index, json) ==
    IF index = <<>> THEN json
    ELSE IF json.t = "obj" /\ Head(index) \in DOMAIN json.f
         THEN get_value(Tail(index), json.f[Head(index)])
         ELSE JNull

get_number_1(value) == IF value.t = "num" THEN Ok(value.n) ELSE Err("JsonError")

\* indexing::get_number: the value at the path as a number, or JsonError.
get_number(index, json) == get_number_1(get_value(index, json))

(***************************************************************************)
(* Sources.  A source is [kind, data, len]: data is the byte vector        *)
(* (InMemory.data) or the content of the file, len is FileSource.len, the  *)
(* length the file source believes the file has (for a memory source it    *)
(* is data.len()).  A file source also has the three names of its         *)
(* directory it uses: path, and the siblings path.jdbtmp and path.jdbold.  *)
(* A name holds no file, a closed file with its bytes, or the file the     *)
(* source has open, whose bytes are `data`.                                *)
(***************************************************************************)
NoFile == [state |-> "none", data |-> <<>>]
Handle == [state |-> "open", data |-> <<>>]
Closed(data) == [state |-> "file", data |-> data]

NewSource(kind) ==
    IF kind = "memory" THEN [kind |-> kind, data |-> <<>>, len |-> 0]
    ELSE [kind |-> kind, data |-> <<>>, len |-> 0,
          path |-> Handle, jdbtmp |-> NoFile, jdbold |-> NoFile]

\* The outcome of the operating system for one append: it succeeds, or it
\* fails after `written` bytes of the entry have reached the file.
NoFault == [fail |-> FALSE]
Fault(c) == [fail |-> TRUE, written |-> c]

\* The bytes of a value of `size` bytes behind the length prefix at `offset`,
\* or the error `e` when they are not all there.
load_value_1(data, offset, size, e) ==
    IF ~(offset + U64Bytes + size <= Len(data)) THEN Err(e)
    ELSE Ok([bytes |-> SubSeq(data, offset + U64Bytes + 1, offset + U64Bytes + size),
             next |-> offset + U64Bytes + size])

\* memory.rs load_value: a length-prefixed value at `offset`, bounds-checked.
mem_load_value(data, offset) ==
    IF ~(offset + U64Bytes <= Len(data)) THEN Err("Index")
    ELSE load_value_1(data, offset,
                      from_le_bytes(SubSeq(data, offset + 1, offset + U64Bytes)), "Index")

\* file.rs load_size: seek and read_exact of 8 bytes; a short read is Io.
file_load_size(data, offset) ==
    IF offset + U64Bytes <= Len(data)
    THEN Ok(from_le_bytes(SubSeq(data, offset + 1, offset + U64Bytes)))
    ELSE Err("Io")

file_load_value_1(data, offset, size) ==
    IF ~size.ok THEN size ELSE load_value_1(data, offset, size.val, "Io")

\* file.rs load_value: the size, then read_exact of that many bytes.
file_load_value(data, offset) ==
    file_load_value_1(data, offset, file_load_size(data, offset))

load_value(src, offset) ==
    IF src.kind = "memory" THEN mem_load_value(src.data, offset)
    ELSE file_load_value(src.data, offset)

read_entry_2(k, v) ==
    IF ~v.ok THEN v ELSE Ok([key |-> k.val.bytes, value |-> v.val.bytes, next |-> v.val.next])

read_entry_1(src, k) ==
    IF ~k.ok THEN k ELSE read_entry_2(k, load_value(src, k.val.next))

\* Source::read_entry: the key and the value bytes of the entry at `offset`
\* (and where the entry ends).
read_entry(src, offset) == read_entry_1(src, load_value(src, offset))

mem_write_entry_1(src, data, size) ==
    [ok |-> TRUE,
     src |-> [src EXCEPT !.data = data, !.len = Len(data)],
     offset |-> Len(data) - size]

\* InMemory::write_entry: extend the vector, return data.len() - size.
mem_write_entry(src, k, v) ==
    mem_write_entry_1(src, src.data \o entry_bytes(k, v), entry_size(k, v))

file_write_entry_1(src, bytes, size, fault) ==
    IF fault.fail
    THEN [ok |-> FALSE, err |-> "Io",
          src |-> [src EXCEPT !.data = @ \o SubSeq(bytes, 1, fault.written)]]
    ELSE [ok |-> TRUE,
          src |-> [src EXCEPT !.data = @ \o bytes, !.len = @ + size],
          offset |-> (src.len + size) - size]

\* FileSource::write_entry: four write_all calls on a file opened in append
\* mode (the bytes land at the end of the file), then len += size and the
\* result len - size; an error returns before len is updated.
file_write_entry(src, k, v, fault) ==
    file_write_entry_1(src, entry_bytes(k, v), entry_size(k, v), fault)

\* Source::write_entry.  A memory source cannot fail.
write_entry(src, k, v, fault) ==
    IF src.kind = "memory" THEN mem_write_entry(src, k, v)
    ELSE file_write_entry(src, k, v, fault)

RECURSIVE load_indexes_from(_, _, _, _)
load_indexes_1(src, end, offset, indexes, e) ==
    IF ~e.ok THEN e
    ELSE load_indexes_from(src, end, e.val.next,
            IF e.val.value = NullText
            THEN remove(indexes, e.val.key)
            ELSE insert(indexes, e.val.key, offset))

\* The loop of load_indexes: `end` is data.len() (memory) or self.len (file).
load_indexes_from(src, end, offset, indexes) ==
    IF ~(offset < end) THEN Ok(indexes)
    ELSE load_indexes_1(src, end, offset, indexes, read_entry(src, offset))

\* Source::load_indexes: scan from offset 0; null removes the key.
load_indexes(src) ==
    load_indexes_from(src, IF src.kind = "memory" THEN Len(src.data) ELSE src.len, 0, <<>>)

(***************************************************************************)
(* Offsets and lengths at their full width.  A u64 is its 8 bytes, least   *)
(* significant first, so that sums beyond 2^64 are computed and not        *)
(* approximated.  `build` says whether the build checks integer overflow   *)
(* (debug) or wraps (release).                                             *)
(***************************************************************************)
\* n as a u64, for n < 2^24.
word(n) == le_bytes(n, U64Bytes)

\* The u64 is below 2^24, and then its value.
word_small(w) == \A i \in 4..U64Bytes : w[i] = 0
word_value(w) == w[1] + 256 * w[2] + 256 * 256 * w[3]

RECURSIVE add_from(_, _, _, _)
add_1(sum, rest) == [val |-> <<sum % 256>> \o rest.val, overflow |-> rest.overflow]

\* a + b on 64 bits from byte i on: the wrapped sum, and whether the true sum
\* is 2^64 or more.
add_from(a, b, i, carry) ==
    IF i > U64Bytes THEN [val |-> <<>>, overflow |-> carry = 1]
    ELSE add_1(a[i] + b[i] + carry, add_from(a, b, i + 1, (a[i] + b[i] + carry) \div 256))

add(a, b) == add_from(a, b, 1, 0)

\* thread 'main' panicked
Panic == Err("panic")

\* memory.rs load_value, from `offset + 8 + size <= data.len()` on: when the
\* sum overflows, a build with overflow checks panics at the addition; a
\* build without them gets a wrapped sum below offset + 8, passes the check
\* and panics at the slice data[offset + 8..wrapped].
mem_load_value_2(data, offset, sum) ==
    IF sum.overflow THEN Panic ELSE mem_load_value(data, offset)

\* memory.rs load_value, from `offset + 8 <= data.len()` on: an overflowing
\* sum panics in a build with overflow checks; wrapped, it is at most 7, and
\* when it passes the check the slice data[offset..wrapped] panics.
mem_load_value_1(data, offset, sum, build) ==
    IF sum.overflow
    THEN (IF build = "debug" \/ word_value(sum.val) <= Len(data) THEN Panic ELSE Err("Index"))
    ELSE IF ~(word_small(sum.val) /\ word_value(sum.val) <= Len(data)) THEN Err("Index")
    ELSE mem_load_value_2(data, word_value(offset),
                          add(sum.val, SubSeq(data, word_value(offset) + 1, word_value(offset) + U64Bytes)))

\* memory.rs load_value for any u64 offset and any length prefix.
mem_load_value_wide(data, offset, build) ==
    mem_load_value_1(data, offset, add(offset, word(U64Bytes)), build)

\* file.rs load_value after load_size: vec![0; size as usize] panics with
\* "capacity overflow" when size exceeds isize::MAX (top bit set).
file_load_value_2(data, offset, size) ==
    IF size[U64Bytes] >= 128 THEN Panic ELSE file_load_value(data, offset)

\* file.rs load_size and load_value for any u64 offset: seek fails for an
\* offset above i64::MAX (Index); read_exact fails beyond the end (Io).
file_load_value_wide(data, offset) ==
    IF offset[U64Bytes] >= 128 THEN Err("Index")
    ELSE IF ~(word_small(offset) /\ word_value(offset) + U64Bytes <= Len(data)) THEN Err("Io")
    ELSE file_load_value_2(data, word_value(offset),
                           SubSeq(data, word_value(offset) + 1, word_value(offset) + U64Bytes))

load_value_wide(src, offset, build) ==
    IF src.kind = "memory" THEN mem_load_value_wide(src.data, offset, build)
    ELSE file_load_value_wide(src.data, offset)

read_entry_wide_1(src, k, build) ==
    IF ~k.ok THEN k ELSE read_entry_2(k, load_value_wide(src, word(k.val.next), build))

\* Source::read_entry for any u64 offset.
read_entry_wide(src, offset, build) ==
    read_entry_wide_1(src, load_value_wide(src, offset, build), build)

RECURSIVE load_indexes_wide_from(_, _, _, _, _)
load_indexes_wide_1(src, end, offset, indexes, build, e) ==
    IF ~e.ok THEN e
    ELSE load_indexes_wide_from(src, end, e.val.next,
            IF e.val.value = NullText
            THEN remove(indexes, e.val.key)
            ELSE insert(indexes, e.val.key, offset), build)

load_indexes_wide_from(src, end, offset, indexes, build) ==
    IF ~(offset < end) THEN Ok(indexes)
    ELSE load_indexes_wide_1(src, end, offset, indexes, build,
                             read_entry_wide(src, word(offset), build))

\* Source::load_indexes on a log of any bytes.
load_indexes_wide(src, build) ==
    load_indexes_wide_from(src, IF src.kind = "memory" THEN Len(src.data) ELSE src.len,
                           0, <<>>, build)

\* The bucket map after inserting `offset` under `value`
\* (entry(value).or_insert_with(..) then insert).
bucket_insert(buckets, value, offset) ==
    insert(buckets, value,
           (IF value \in DOMAIN buckets THEN buckets[value] ELSE {}) \union {offset})

RECURSIVE index_on_from(_, _, _, _)
index_on_2(src, k, offsets, indexes, i, value) ==
    IF ~value.ok THEN Err("JsonError")
    ELSE index_on_from(src, k, offsets \ {i},
                       bucket_insert(indexes, get_value(k, value.val), i))

index_on_1(src, k, offsets, indexes, i, e) ==
    IF ~e.ok THEN e ELSE index_on_2(src, k, offsets, indexes, i, from_str(e.val.value))

index_on_from(src, k, offsets, indexes) ==
    IF offsets = {} THEN Ok(indexes)
    ELSE index_on_1(src, k, offsets, indexes,
                    CHOOSE o \in offsets : \A p \in offsets : o <= p,
                    read_entry(src, CHOOSE o \in offsets : \A p \in offsets : o <= p))

\* Source::index_on: for every live offset, parse the value, extract the
\* field and put the offset in that bucket.  (Offsets are visited in
\* ascending order here; the order only decides which error is returned
\* when several entries fail.)
index_on(src, k, primary_indexes) ==
    index_on_from(src, k, Range(primary_indexes), <<>>)

RECURSIVE compact_copy(_, _, _)
compact_copy_1(src, order, new_data, e) ==
    IF ~e.ok THEN [ok |-> FALSE, err |-> e.err, val |-> new_data]
    ELSE compact_copy(src, Tail(order),
                      new_data \o SubSeq(src.data, Head(order) + 1, e.val.next))

\* The copy loop of Source::compact: the bytes of each live entry, in the
\* order `order` in which the primary index is iterated.
compact_copy(src, order, new_data) ==
    IF order = <<>> THEN Ok(new_data)
    ELSE compact_copy_1(src, order, new_data, read_entry(src, Head(order)))

source_compact_1(src, c) ==
    IF ~c.ok THEN [ok |-> FALSE, err |-> c.err, src |-> src]
    ELSE [ok |-> TRUE, src |-> [src EXCEPT !.data = c.val, !.len = Len(c.val)]]

\* The steps of FileSource::compact and FileSource::migrate at which the
\* file system is called, in order.
RewriteSteps ==
    <<"remove_temp", "create", "copy", "rename_old", "rename_new", "reopen", "remove_old">>

\* fs::rename(&self.path, self.path.with_extension("jdbold")): the file of
\* the original path is now the old sibling, replacing one that was there.
rename_old(src) == [src EXCEPT !.jdbold = src.path, !.path = NoFile]

\* FileSource::compact and FileSource::migrate from step `pc` on, every step
\* leaving through `?` when it fails.  `c` is the outcome of the copy loop
\* (the bytes for the temporary file; on an error the bytes written before
\* it), `fail` the step at which the file system returns an error: removing
\* a temporary file that is there, creating it, the first write to it, the
\* two renames, opening the new file, removing the old one.
RECURSIVE rewrite(_, _, _, _)
rewrite(src, c, fail, pc) ==
    CASE pc = 1 ->
           IF src.jdbtmp.state = "none" THEN rewrite(src, c, fail, 2)
           ELSE IF fail = RewriteSteps[pc] THEN [ok |-> FALSE, err |-> "Io", src |-> src]
           ELSE rewrite([src EXCEPT !.jdbtmp = NoFile], c, fail, 2)
      [] pc = 2 ->
           IF fail = RewriteSteps[pc] THEN [ok |-> FALSE, err |-> "Io", src |-> src]
           ELSE rewrite([src EXCEPT !.jdbtmp = Closed(<<>>)], c, fail, 3)
      [] pc = 3 ->
           IF ~c.ok
           THEN [ok |-> FALSE, err |-> c.err, src |-> [src EXCEPT !.jdbtmp = Closed(c.val)]]
           ELSE IF fail = RewriteSteps[pc] /\ c.val # <<>>
           THEN [ok |-> FALSE, err |-> "Io", src |-> src]
           ELSE rewrite([src EXCEPT !.jdbtmp = Closed(c.val)], c, fail, 4)
      [] pc = 4 ->
           IF fail = RewriteSteps[pc] \/ src.path.state = "none"
           THEN [ok |-> FALSE, err |-> "Io", src |-> src]
           ELSE rewrite(rename_old(src), c, fail, 5)
      [] pc = 5 ->
           IF fail = RewriteSteps[pc] THEN [ok |-> FALSE, err |-> "Io", src |-> src]
           ELSE rewrite([src EXCEPT !.path = src.jdbtmp, !.jdbtmp = NoFile], c, fail, 6)
      [] pc = 6 ->
           IF fail = RewriteSteps[pc] THEN [ok |-> FALSE, err |-> "Io", src |-> src]
           ELSE rewrite([src EXCEPT
                           !.jdbold = IF @.state = "open" THEN Closed(src.data) ELSE @,
                           !.path = Handle, !.data = src.path.data,
                           !.len = Len(src.path.data)],
                        c, fail, 7)
      [] OTHER ->
           IF src.jdbold.state = "none" \/ fail = RewriteSteps[pc]
           THEN [ok |-> FALSE, err |-> "Io", src |-> src]
           ELSE [ok |-> TRUE, src |-> [src EXCEPT !.jdbold = NoFile]]

\* Source::compact: a memory source becomes the copied entries and its
\* length their total size; a file source is rewritten through its siblings.
source_compact(src, order, fail) ==
    IF src.kind = "memory" THEN source_compact_1(src, compact_copy(src, order, <<>>))
    ELSE rewrite(src, compact_copy(src, order, <<>>), fail, 1)

\* The transforms handed to migrate, by name: the identity, and one that
\* sets the member n of an object to 2.
transform(f, value) ==
    IF f = "set_n" /\ value.t = "obj" THEN JObj(value.f.y, JNum(2)) ELSE value

RECURSIVE migrate_copy(_, _, _, _)
migrate_copy_2(src, order, f, new_source, w) ==
    IF ~w.ok THEN [ok |-> FALSE, err |-> w.err, val |-> w.src]
    ELSE migrate_copy(src, Tail(order), f, w.src)

migrate_copy_1(src, order, f, new_source, e, old) ==
    IF ~old.ok THEN [ok |-> FALSE, err |-> "JsonError", val |-> new_source]
    ELSE migrate_copy_2(src, order, f, new_source,
            write_entry(new_source, e.val.key, to_string(transform(f, old.val)), NoFault))

\* The loop of Source::migrate: every entry the primary index points at is
\* read, decoded, transformed, serialised and appended to the new source.
migrate_copy(src, order, f, new_source) ==
    IF order = <<>> THEN Ok(new_source)
    ELSE IF ~read_entry(src, Head(order)).ok
    THEN [ok |-> FALSE, err |-> read_entry(src, Head(order)).err, val |-> new_source]
    ELSE migrate_copy_1(src, order, f, new_source, read_entry(src, Head(order)),
                        from_str(read_entry(src, Head(order)).val.value))

source_migrate_1(src, c) ==
    IF ~c.ok THEN [ok |-> FALSE, err |-> c.err, src |-> src]
    ELSE [ok |-> TRUE, src |-> [src EXCEPT !.data = c.val.data, !.len = c.val.len]]

\* Source::migrate on the success path of the file system: the source
\* becomes the new source.
source_migrate_2(src, c, fail) == rewrite(src, [c EXCEPT !.val = @.data], fail, 1)

source_migrate(src, order, f, fail) ==
    IF src.kind = "memory"
    THEN source_migrate_1(src, migrate_copy(src, order, f, NewSource(src.kind)))
    ELSE source_migrate_2(src, migrate_copy(src, order, f, NewSource(src.kind)), fail)

(***************************************************************************)
(* The database.  An engine is [primary_indexes, secondary_indexes,        *)
(* source, replicas]; a replicator is [mode, replica, delivered] with      *)
(* replica an engine (impl Replica for Database) and delivered the calls   *)
(* of Replica::set made on it; an asynchronous replicator has the queue of *)
(* its channel and the state of its worker as well.  An operation yields   *)
(* [db |-> the engine after it, res |-> its result].                       *)
(***************************************************************************)
Unit == Ok("unit")

\* Database::from_source on an empty source / Database::default.
NewDatabase(kind) ==
    [primary_indexes |-> <<>>, secondary_indexes |-> <<>>,
     source |-> NewSource(kind), replicas |-> <<>>]

from_source_1(source, indexes) ==
    IF ~indexes.ok THEN indexes
    ELSE Ok([primary_indexes |-> indexes.val, secondary_indexes |-> <<>>,
             source |-> source, replicas |-> <<>>])

\* Database::from_source: the primary index is replayed from the log; no
\* secondary index, no replica.
from_source(source) == from_source_1(source, load_indexes(source))

\* FileSource::new on an existing file: the length is that of the file.
file_open(data) == [NewSource("file") EXCEPT !.data = data, !.len = Len(data)]

\* into_memory that reads from where the file position is, without the seek
\* to the start: a file opened for appending is read from its end.
file_into_memory_no_seek(src) ==
    [kind |-> "memory", data |-> <<>>, len |-> 0, path |-> Closed(src.data)]

\* FileSource::into_memory: the whole file is read into a vector; the file
\* is closed and stays at its path.
file_into_memory(src) ==
    [kind |-> "memory", data |-> src.data, len |-> Len(src.data),
     path |-> IF src.path.state = "open" THEN Closed(src.data) ELSE src.path]

\* InMemory::into_file(path): a new file at the path receives the bytes of
\* the vector.
mem_into_file(src) == [NewSource("file") EXCEPT !.data = src.data, !.len = Len(src.data)]

\* The bytes of the file at the path of a file source; FileSource::new
\* creates the file, empty, when there is none.
at_path(src) == IF src.path.state = "open" THEN src.data ELSE src.path.data

\* Database::open(path) on the file the engine wrote (for a memory engine:
\* Database::from_source on its bytes).
reopen(d) ==
    from_source(IF d.source.kind = "file" THEN file_open(at_path(d.source)) ELSE d.source)

get_at_index_2(e, v) ==
    IF ~v.ok THEN Err("JsonError") ELSE Ok([key |-> e.val.key, value |-> v.val])

get_at_index_1(e) ==
    IF ~e.ok THEN e
    ELSE IF e.val.value = NullText THEN Err("InvalidKey")
    ELSE get_at_index_2(e, from_str(e.val.value))

\* Database::get_at_index: the entry at `index`, its value decoded; the
\* delete marker is InvalidKey.
get_at_index(d, index) == get_at_index_1(read_entry(d.source, index))

get_1(r) == IF ~r.ok THEN r ELSE Ok(r.val.value)

\* Database::get
get(d, key) ==
    IF key \notin DOMAIN d.primary_indexes THEN Err("InvalidKey")
    ELSE get_1(get_at_index(d, d.primary_indexes[key]))

set_raw_1(d, key, w) ==
    IF ~w.ok THEN [db |-> [d EXCEPT !.source = w.src], res |-> Err(w.err)]
    ELSE [db |-> [d EXCEPT !.source = w.src,
                           !.primary_indexes = insert(@, key, w.offset)],
          res |-> Unit]

\* set_raw without the check for secondary indexes.
set_raw_unchecked(d, key, value) ==
    set_raw_1(d, key, write_entry(d.source, key, value, NoFault))

\* Database::set_raw: the write of a replica; refuses an engine that has
\* secondary indexes.
set_raw(d, key, value) ==
    IF d.secondary_indexes # <<>> THEN [db |-> d, res |-> Err("Index")]
    ELSE set_raw_1(d, key, write_entry(d.source, key, value, NoFault))

\* The (key, value) pair of one call of Replica::set.
Pair(key, value) == [key |-> key, value |-> value]

replicator_set_1(r, key, value, s) ==
    [replicator |-> [r EXCEPT !.replica = s.db, !.delivered = Append(@, Pair(key, value))],
     res |-> s.res]

\* A send that succeeds whether or not the receiver is there, the message
\* being dropped when it is not.
send_unchecked(r, msg) ==
    IF r.worker # "running" THEN [replicator |-> r, res |-> Unit]
    ELSE [replicator |-> [r EXCEPT !.queue = Append(@, msg), !.sent = Append(@, msg)],
          res |-> Unit]

\* Sender::send: the message joins the queue, unless the receiver is gone
\* (the worker has returned or panicked).
send(r, msg) ==
    IF r.worker # "running" THEN [replicator |-> r, res |-> Err("ReplicaError")]
    ELSE [replicator |-> [r EXCEPT !.queue = Append(@, msg), !.sent = Append(@, msg)],
          res |-> Unit]

\* Replicator::set: for a synchronous replica Replica::set of the engine,
\* for an asynchronous one the message Replicate(key, value) to its worker.
replicator_set(r, key, value) ==
    IF r.mode = "sync" THEN replicator_set_1(r, key, value, set_raw(r.replica, key, value))
    ELSE send(r, [type |-> "Replicate", key |-> key, value |-> value])

\* The body of the worker's loop for a Replicate message: Replica::set, and
\* unwrap() of its result. A panic ends the thread and drops the receiver
\* with whatever is still queued.
worker_1(r, msg, s) ==
    IF s.res.ok
    THEN [r EXCEPT !.replica = s.db, !.delivered = Append(@, Pair(msg.key, msg.value)),
                   !.queue = Tail(@)]
    ELSE [r EXCEPT !.replica = s.db, !.delivered = Append(@, Pair(msg.key, msg.value)),
                   !.queue = <<>>, !.worker = "panicked"]

\* One turn of the loop `for msg in rx` of the thread spawned by
\* Replicator::new_async: Shutdown breaks out of it.
worker(r) ==
    IF Head(r.queue).type = "Shutdown" THEN [r EXCEPT !.queue = <<>>, !.worker = "exited"]
    ELSE worker_1(r, Head(r.queue), set_raw(r.replica, Head(r.queue).key, Head(r.queue).value))

\* Drop for Replicator, first statement: sender.send(Shutdown).unwrap().
drop_send(r) ==
    IF send(r, [type |-> "Shutdown"]).res.ok
    THEN [send(r, [type |-> "Shutdown"]).replicator EXCEPT !.teardown = "sent"]
    ELSE [r EXCEPT !.teardown = "panicked"]

\* Drop for Replicator, second statement: thread.join().unwrap(), which
\* returns once the thread has ended and panics if the thread panicked.
drop_join(r) ==
    IF r.worker = "panicked" THEN [r EXCEPT !.teardown = "panicked"]
    ELSE [r EXCEPT !.teardown = "returned"]

RECURSIVE replicate(_, _, _, _)
replicate_1(replicas, i, key, value, r) ==
    IF ~r.res.ok THEN [replicas |-> [replicas EXCEPT ![i] = r.replicator], res |-> r.res]
    ELSE replicate([replicas EXCEPT ![i] = r.replicator], i + 1, key, value)

\* for replica in &mut self.replicas { replica.set(key, value)?; }
replicate(replicas, i, key, value) ==
    IF i > Len(replicas) THEN [replicas |-> replicas, res |-> Unit]
    ELSE replicate_1(replicas, i, key, value, replicator_set(replicas[i], key, value))

\* The secondary indexes after the loop of Database::set.
\* set that files the new offset under the null bucket of every index.
set_secondary_misfiled(secondary_indexes, value, index) ==
    [index_path \in DOMAIN secondary_indexes |->
        bucket_insert(secondary_indexes[index_path], JNull, index)]

set_secondary(secondary_indexes, value, index) ==
    [index_path \in DOMAIN secondary_indexes |->
        bucket_insert(secondary_indexes[index_path], get_value(index_path, value), index)]

\* set that answers Ok whatever the replicas returned.
set_2_swallow(d, r) == [db |-> [d EXCEPT !.replicas = r.replicas], res |-> Unit]

set_2(d, r) == [db |-> [d EXCEPT !.replicas = r.replicas], res |-> r.res]

\* set that leaves a key it already knows at its old offset.
set_1_keep_offset(d, key, value, json, w) ==
    IF ~w.ok THEN [db |-> [d EXCEPT !.source = w.src], res |-> Err(w.err)]
    ELSE set_2([d EXCEPT !.source = w.src,
                         !.primary_indexes =
                            IF key \in DOMAIN @ THEN @ ELSE insert(@, key, w.offset),
                         !.secondary_indexes = set_secondary(@, value, w.offset)],
               replicate(d.replicas, 1, key, json))

set_1(d, key, value, json, w) ==
    IF ~w.ok THEN [db |-> [d EXCEPT !.source = w.src], res |-> Err(w.err)]
    ELSE set_2([d EXCEPT !.source = w.src,
                         !.primary_indexes = insert(@, key, w.offset),
                         !.secondary_indexes = set_secondary(@, value, w.offset)],
               replicate(d.replicas, 1, key, json))

\* Database::set: append the entry, point the key at it, add the offset to
\* the bucket of each secondary index, then replicate.
set(d, key, value, fault) ==
    set_1(d, key, value, to_string(value),
          write_entry(d.source, key, to_string(value), fault))

RECURSIVE delete_secondary(_, _, _, _)
\* The loop of Database::delete over the secondary indexes, visited in the
\* order `order`: a missing bucket ends it with InvalidKey.
delete_secondary(secondary_indexes, order, value, index) ==
    IF order = <<>> THEN [secondary_indexes |-> secondary_indexes, res |-> Unit]
    ELSE IF get_value(Head(order), value) \notin DOMAIN secondary_indexes[Head(order)]
    THEN [secondary_indexes |-> secondary_indexes, res |-> Err("InvalidKey")]
    ELSE delete_secondary(
            [secondary_indexes EXCEPT ![Head(order)][get_value(Head(order), value)] =
                @ \ {index}],
            Tail(order), value, index)

delete_4(d, r) == [db |-> [d EXCEPT !.replicas = r.replicas], res |-> r.res]

\* delete that does not pass the delete marker on to the replicas.
delete_3_no_fanout(d, key, w) ==
    IF ~w.ok THEN [db |-> [d EXCEPT !.source = w.src], res |-> Err(w.err)]
    ELSE [db |-> [d EXCEPT !.source = w.src], res |-> Unit]

delete_3(d, key, w) ==
    IF ~w.ok THEN [db |-> [d EXCEPT !.source = w.src], res |-> Err(w.err)]
    ELSE delete_4([d EXCEPT !.source = w.src], replicate(d.replicas, 1, key, NullText))

delete_2(d, key, fault, s) ==
    IF ~s.res.ok THEN [db |-> [d EXCEPT !.secondary_indexes = s.secondary_indexes], res |-> s.res]
    ELSE delete_3([d EXCEPT !.secondary_indexes = s.secondary_indexes], key,
                  write_entry(d.source, key, NullText, fault))

delete_1(d, key, order, fault, index, value) ==
    IF ~value.ok THEN [db |-> d, res |-> value]
    ELSE delete_2(d, key, fault,
                  delete_secondary(d.secondary_indexes, order, value.val.value, index))

\* delete that forgets to take the key out of the primary index.
delete_keep_key(d, key, order, fault) ==
    IF key \notin DOMAIN d.primary_indexes THEN [db |-> d, res |-> Err("InvalidKey")]
    ELSE delete_1(d, key, order, fault,
                  d.primary_indexes[key], get_at_index(d, d.primary_indexes[key]))

\* delete that appends the delete marker for a key it does not know.
delete_absent_marks(d, key, order, fault) ==
    IF key \notin DOMAIN d.primary_indexes
    THEN [db |-> [d EXCEPT !.source = write_entry(d.source, key, NullText, NoFault).src],
          res |-> Err("InvalidKey")]
    ELSE delete_1([d EXCEPT !.primary_indexes = remove(@, key)], key, order, fault,
                  d.primary_indexes[key], get_at_index(d, d.primary_indexes[key]))

\* Database::delete: take the key out of the primary index, decode its
\* value, take its offset out of the secondary buckets, append the delete
\* marker, then replicate.
delete(d, key, order, fault) ==
    IF key \notin DOMAIN d.primary_indexes THEN [db |-> d, res |-> Err("InvalidKey")]
    ELSE delete_1([d EXCEPT !.primary_indexes = remove(@, key)], key, order, fault,
                  d.primary_indexes[key], get_at_index(d, d.primary_indexes[key]))

with_index_1(d, field, indexes) ==
    IF ~indexes.ok THEN [db |-> d, res |-> indexes]
    ELSE [db |-> [d EXCEPT !.secondary_indexes = insert(@, field, indexes.val)],
          res |-> Unit]

\* Database::with_index
with_index(d, field) ==
    with_index_1(d, field, index_on(d.source, field, d.primary_indexes))

compact_3(d, s) ==
    IF \E k \in DOMAIN s : ~s[k].ok
    THEN [db |-> d, res |-> s[CHOOSE k \in DOMAIN s : ~s[k].ok]]
    ELSE [db |-> [d EXCEPT !.secondary_indexes = [k \in DOMAIN s |-> s[k].val]],
          res |-> Unit]

\* compact that keeps the primary index of the log it has just rewritten.
compact_2_stale(d, p) ==
    IF ~p.ok THEN [db |-> d, res |-> p]
    ELSE compact_3(d, [k \in DOMAIN d.secondary_indexes |->
                          index_on(d.source, k, p.val)])

\* compact that reloads the primary index and leaves the secondary buckets
\* as they were, holding offsets of the log before the rewrite.
compact_2_keep(d, p) ==
    IF ~p.ok THEN [db |-> d, res |-> p]
    ELSE [db |-> [d EXCEPT !.primary_indexes = p.val], res |-> Unit]

compact_2(d, p) ==
    IF ~p.ok THEN [db |-> d, res |-> p]
    ELSE compact_3([d EXCEPT !.primary_indexes = p.val],
                   [k \in DOMAIN d.secondary_indexes |-> index_on(d.source, k, p.val)])

compact_1(d, c) ==
    IF ~c.ok THEN [db |-> [d EXCEPT !.source = c.src], res |-> Err(c.err)]
    ELSE compact_2([d EXCEPT !.source = c.src], load_indexes(c.src))

\* Database::compact: rewrite the source, reload the primary index, then
\* recompute every secondary index.  index_on reads and parses the same
\* entries for every field, so it fails for all fields or for none: no field
\* is replaced when it fails.
compact(d, order, fail) == compact_1(d, source_compact(d.source, order, fail))

\* migrate that keeps the secondary indexes and the replicas of the engine.
migrate_2_carry(d, n) ==
    IF ~n.ok THEN [db |-> d, res |-> n, dropped |-> <<>>]
    ELSE [db |-> [n.val EXCEPT !.secondary_indexes = d.secondary_indexes,
                               !.replicas = d.replicas],
          res |-> Unit, dropped |-> <<>>]

\* `dropped` are the replicators of the consumed engine as they are dropped.
migrate_2(d, n) ==
    IF ~n.ok THEN [db |-> d, res |-> n, dropped |-> d.replicas]
    ELSE [db |-> n.val, res |-> Unit, dropped |-> d.replicas]

migrate_1(d, m) ==
    IF ~m.ok THEN [db |-> [d EXCEPT !.source = m.src], res |-> Err(m.err),
                   dropped |-> d.replicas]
    ELSE migrate_2([d EXCEPT !.source = m.src], from_source(m.src))

\* Database::migrate: rewrite the source through f, then build the engine
\* anew from the source.
migrate(d, f, order, fail) == migrate_1(d, source_migrate(d.source, order, f, fail))

\* Database::into_memory: the indexes and the replicas are carried over, the
\* source is converted.
into_memory(d) == [db |-> [d EXCEPT !.source = file_into_memory(d.source)], res |-> Unit]

\* Database::into_file
into_file(d) == [db |-> [d EXCEPT !.source = mem_into_file(d.source)], res |-> Unit]

\* Database::iter: one item per offset of the primary index, each read when
\* the iterator is advanced.
iter(d) == [index \in Range(d.primary_indexes) |-> get_at_index(d, index)]

(***************************************************************************)
(* Queries.  A predicate is [kind, key, right]; a query is                 *)
(* [predicates, predicate_combination].                                    *)
(***************************************************************************)
Gt(key, right) == [kind |-> "Gt", key |-> key, right |-> right]
Gte(key, right) == [kind |-> "Gte", key |-> key, right |-> right]
Lt(key, right) == [kind |-> "Lt", key |-> key, right |-> right]
Lte(key, right) == [kind |-> "Lte", key |-> key, right |-> right]
Eq(key, right) == [kind |-> "Eq", key |-> key, right |-> right]
Ne(key, right) == [kind |-> "Ne", key |-> key, right |-> right]
Closure(key, closure) == [kind |-> "Closure", key |-> key, right |-> closure]

\* The closures of the model, by name: |v| v.as_number().is_some()
closure_call(closure, json) == closure = "is_number" /\ json.t = "num"

\* The comparison of an ordering predicate with a number on its left.
compare(kind, left, right) ==
    CASE kind = "Gt" -> left > right
      [] kind = "Gte" -> left >= right
      [] kind = "Lt" -> left < right
      [] OTHER -> left <= right

\* Predicate::matches_direct: the predicate on an already extracted value
\* (the key of a bucket).
matches_direct(p, json) ==
    CASE p.kind \in {"Gt", "Gte", "Lt", "Lte"} ->
            IF json.t = "num" THEN Ok(compare(p.kind, json.n, p.right)) ELSE Err("JsonError")
      [] p.kind = "Eq" -> Ok(json = p.right)
      [] p.kind = "Ne" -> Ok(json # p.right)
      [] OTHER -> Ok(closure_call(p.right, json))

\* A Predicate::matches whose ordering predicates are false, not an error,
\* when the field is not a number.
predicate_matches_lenient(p, json) ==
    CASE p.kind \in {"Gt", "Gte", "Lt", "Lte"} ->
            Ok(get_number(p.key, json).ok /\ compare(p.kind, get_value(p.key, json).n, p.right))
      [] p.kind = "Eq" -> Ok(get_value(p.key, json) = p.right)
      [] p.kind = "Ne" -> Ok(get_value(p.key, json) # p.right)
      [] OTHER -> Ok(closure_call(p.right, get_value(p.key, json)))

\* Predicate::matches: the predicate on a whole value.
predicate_matches(p, json) ==
    CASE p.kind \in {"Gt", "Gte", "Lt", "Lte"} ->
            LET left == get_number(p.key, json)
            IN IF left.ok THEN Ok(compare(p.kind, left.val, p.right)) ELSE left
      [] p.kind = "Eq" -> Ok(get_value(p.key, json) = p.right)
      [] p.kind = "Ne" -> Ok(get_value(p.key, json) # p.right)
      [] OTHER -> Ok(closure_call(p.right, get_value(p.key, json)))

RECURSIVE matches_from(_, _, _)
\* The loops of Query::matches: And stops at the first predicate that is
\* false, Or at the first that is true, both at the first error.
matches_from(predicates, combination, json) ==
    IF predicates = <<>> THEN Ok(combination = "And")
    ELSE LET m == predicate_matches(Head(predicates), json)
         IN IF ~m.ok THEN m
            ELSE IF combination = "And" /\ ~m.val THEN Ok(FALSE)
            ELSE IF combination = "Or" /\ m.val THEN Ok(TRUE)
            ELSE matches_from(Tail(predicates), combination, json)

\* Query::matches
matches(q, json) == matches_from(q.predicates, q.predicate_combination, json)

\* Predicate::is_indexed
is_indexed(p, d) == p.key \in DOMAIN d.secondary_indexes

\* is_optimisable that asks for one indexed predicate whatever the connective.
is_optimisable_any(q, d) == \E i \in 1..Len(q.predicates) : is_indexed(q.predicates[i], d)

\* Query::is_optimisable
is_optimisable(q, d) ==
    IF q.predicate_combination = "And"
    THEN \E i \in 1..Len(q.predicates) : is_indexed(q.predicates[i], d)
    ELSE \A i \in 1..Len(q.predicates) : is_indexed(q.predicates[i], d)

\* How often `offset` is pushed by the loop over the optimisable predicates:
\* once for every predicate and bucket that holds it and whose key matches.
pushed(optimisable, d, offset) ==
    Cardinality({<<i, v>> \in (1..Len(optimisable)) \X UNION {DOMAIN d.secondary_indexes[f] : f \in DOMAIN d.secondary_indexes} :
        /\ v \in DOMAIN d.secondary_indexes[optimisable[i].key]
        /\ matches_direct(optimisable[i], v).val
        /\ offset \in d.secondary_indexes[optimisable[i].key][v]})

RECURSIVE sorted(_, _)
\* indexes.sort(): every offset of `offsets`, count[offset] times, ascending.
sorted(offsets, count) ==
    IF offsets = {} THEN <<>>
    ELSE LET o == CHOOSE x \in offsets : \A y \in offsets : x <= y
         IN [i \in 1..count[o] |-> o] \o sorted(offsets \ {o}, count)

\* include(n): And keeps an offset pushed by every optimisable predicate,
\* Or one pushed at least once.
include(combination, n_optimisable, n) ==
    IF combination = "And" THEN n = n_optimisable ELSE n > 0

RECURSIVE collapse(_, _, _, _, _, _)
\* The loop over the sorted offsets that counts runs of equal offsets,
\* with its final push.
collapse(indexes, combination, n_optimisable, combined_indexes, count, last_index) ==
    IF indexes = <<>>
    THEN IF include(combination, n_optimisable, count)
         THEN Append(combined_indexes, last_index) ELSE combined_indexes
    ELSE IF last_index # Head(indexes)
         THEN collapse(Tail(indexes), combination, n_optimisable,
                       IF include(combination, n_optimisable, count)
                       THEN Append(combined_indexes, last_index) ELSE combined_indexes,
                       1, Head(indexes))
         ELSE collapse(Tail(indexes), combination, n_optimisable,
                       combined_indexes, count + 1, last_index)

RECURSIVE filter(_, _, _, _)
\* The 'outer loop: keep the offsets whose value passes every residual
\* predicate; an unreadable value or a failing predicate is an error.
filter(combined_indexes, unoptimisable, d, filtered_indexes) ==
    IF combined_indexes = <<>> THEN Ok(filtered_indexes)
    ELSE LET e == get_at_index(d, Head(combined_indexes))
         IN IF ~e.ok THEN e
            ELSE LET m == matches_from(unoptimisable, "And", e.val.value)
                 IN IF ~m.ok THEN m
                    ELSE filter(Tail(combined_indexes), unoptimisable, d,
                                IF m.val THEN Append(filtered_indexes, Head(combined_indexes))
                                ELSE filtered_indexes)

\* Query::execute_optimised: the offsets the returned iterator holds.
execute_optimised(q, d) ==
    LET optimisable_predicates == SelectSeq(q.predicates, LAMBDA p : is_indexed(p, d))
        unoptimisable_predicates == SelectSeq(q.predicates, LAMBDA p : ~is_indexed(p, d))
        failing == \E i \in 1..Len(optimisable_predicates) :
                     \E v \in DOMAIN d.secondary_indexes[optimisable_predicates[i].key] :
                        ~matches_direct(optimisable_predicates[i], v).ok
        offsets == UNION {UNION Range(d.secondary_indexes[f]) : f \in DOMAIN d.secondary_indexes}
        count == [o \in offsets |-> pushed(optimisable_predicates, d, o)]
        combined_indexes ==
            collapse(sorted(offsets, count), q.predicate_combination,
                     Len(optimisable_predicates), <<>>, 0, 1)
    IN IF failing THEN Err("JsonError")
       ELSE IF unoptimisable_predicates = <<>> THEN Ok(combined_indexes)
       ELSE filter(combined_indexes, unoptimisable_predicates, d, <<>>)

RECURSIVE execute_unoptimised_from(_, _, _, _)
execute_unoptimised_from(q, d, keys, indexes) ==
    IF keys = <<>> THEN Ok(indexes)
    ELSE LET e == get_at_index(d, Head(keys))
         IN IF ~e.ok THEN e
            ELSE LET m == matches(q, e.val.value)
                 IN IF ~m.ok THEN m
                    ELSE execute_unoptimised_from(q, d, Tail(keys),
                            IF m.val THEN Append(indexes, Head(keys)) ELSE indexes)

\* Query::execute_unoptimised: every offset of the primary index, in the
\* order `keys` in which the map yields them, whose value matches.
execute_unoptimised(q, d, keys) == execute_unoptimised_from(q, d, keys, <<>>)

\* Query::execute, with `keys` the order in which the primary index is iterated.
execute(q, d, keys) ==
    IF is_optimisable(q, d) THEN execute_optimised(q, d) ELSE execute_unoptimised(q, d, keys)

\* From<Predicate> for Query
from_predicate(p) == [predicates |-> <<p>>, predicate_combination |-> "And"]

\* bitand that keeps the connective of its left operand.
bitand_keep(l, r) ==
    [predicates |-> l.predicates \o r.predicates,
     predicate_combination |-> l.predicate_combination]

\* BitAnd for Query: q1 & q2
bitand(l, r) ==
    [predicates |-> l.predicates \o r.predicates, predicate_combination |-> "And"]

\* BitOr for Query: q1 | q2
bitor(l, r) ==
    [predicates |-> l.predicates \o r.predicates, predicate_combination |-> "Or"]

\* The items the iterator of a query (or of iter) yields for its offsets.
items(d, keys) == [i \in 1..Len(keys) |-> get_at_index(d, keys[i])]

(***************************************************************************)
(* The state machine.                                                      *)
(***************************************************************************)
\* Keys ("a", "b"), as their bytes.
Keys == {<<97>>, <<98>>}

\* The values a caller stores: JSON null (a type such as Option<T>
\* serialises to it) and objects with the members y and n.
Docs == {JNull, JObj(JNum(1), JNum(1)), JObj(JNum(2), JNum(1)), JObj(JNum(1), JNum(2))}

\* The field paths that can be indexed and queried.
Fields == {<<"y">>, <<"n">>}

VARIABLES
    db,       \* the engine
    nops,     \* operations done so far
    last,     \* the last operation: what it was, its result, the engine before it
    written   \* per key, the value of the last write that returned Ok

vars == <<db, nops, last, written>>

NotWritten == [t |-> "none"]
Deleted == [t |-> "deleted"]
RawWrite == [t |-> "raw"]

\* Replicator::new(replica): `delivered` records the calls of Replica::set.
SyncReplica(kind) == [mode |-> "sync", replica |-> NewDatabase(kind), delivered |-> <<>>]

\* Database::new_in_memory() or Database::create(path), with or without
\* .with_index("y") and .with_replica(Database::create(..)).
Init ==
    /\ \E kind \in {"memory", "file"},
          indexed \in {{}, {<<"y">>}},
          replicas \in {<<>>, <<SyncReplica("file")>>} :
          db = [NewDatabase(kind) EXCEPT !.secondary_indexes = [f \in indexed |-> <<>>],
                                         !.replicas = replicas]
    /\ nops = 0
    /\ last = [op |-> "init", key |-> <<>>, w |-> NotWritten, fault |-> NoFault, res |-> Unit,
               pre |-> NewDatabase("memory")]
    /\ written = [k \in Keys |-> NotWritten]

\* One operation `op` on `key` with outcome r = [db, res], its append failing
\* as `fault` says; `w` is what the key has been written with when the
\* operation returns Ok.
Step(op, key, fault, r, w) ==
    /\ nops' = nops + 1
    /\ db' = r.db
    /\ last' = [op |-> op, key |-> key, w |-> w, fault |-> fault, res |-> r.res, pre |-> db]
    /\ written' = IF r.res.ok /\ key \in Keys THEN [written EXCEPT ![key] = w] ELSE written

Set(key, value, fault) ==
    /\ nops < MaxOps
    /\ Step("set", key, fault, set(db, key, value, fault), value)

Delete(key, order, fault) ==
    /\ nops < MaxOps
    /\ Step("delete", key, fault, delete(db, key, order, fault), Deleted)

Compact(order) ==
    /\ nops < MaxOps
    /\ Step("compact", <<>>, NoFault, compact(db, order, "none"), NotWritten)

WithIndex(field) ==
    /\ nops < MaxOps
    /\ Step("with_index", <<>>, NoFault, with_index(db, field), NotWritten)

\* Replica::set called on the engine itself: the write a parent sends, a
\* serialised value or "null" for a delete.
ReplicaSet(key, value) ==
    /\ nops < MaxOps
    /\ Step("replica_set", key, NoFault, set_raw(db, key, value), RawWrite)

Next ==
    \/ \E key \in Keys, value \in Docs : Set(key, value, NoFault)
    \/ \E key \in Keys, order \in Orders(DOMAIN db.secondary_indexes) :
          Delete(key, order, NoFault)
    \/ \E order \in Orders(Range(db.primary_indexes)) : Compact(order)
    \/ \E field \in Fields : WithIndex(field)

Spec == Init /\ [][Next]_vars

\* The engine when it is itself the replica of a parent: besides its own
\* operations it receives the parent's writes through Replica::set.
NextReplica ==
    \/ Next
    \/ \E key \in Keys, value \in Docs : ReplicaSet(key, to_string(value))

SpecReplica == Init /\ [][NextReplica]_vars

\* How many bytes of an entry reach the file when an append fails: none, or
\* the key length and the key.
Cuts == {0, U64Bytes + 1}

\* A file-backed engine whose appends may fail part-way.
InitIo == Init /\ db.source.kind = "file"

NextIo ==
    \/ Next
    \/ \E key \in Keys, value \in Docs, written_bytes \in Cuts :
          Set(key, value, Fault(written_bytes))
    \/ \E key \in Keys, order \in Orders(DOMAIN db.secondary_indexes), written_bytes \in Cuts :
          Delete(key, order, Fault(written_bytes))

SpecIo == InitIo /\ [][NextIo]_vars

\* Runs in which every set and every delete returns Ok.
NextWrites ==
    \/ \E key \in Keys, value \in Docs :
          Set(key, value, NoFault) /\ set(db, key, value, NoFault).res.ok
    \/ \E key \in Keys, order \in Orders(DOMAIN db.secondary_indexes) :
          Delete(key, order, NoFault) /\ delete(db, key, order, NoFault).res.ok

SpecWrites == Init /\ [][NextWrites]_vars

\* The transforms handed to migrate.
Transforms == {"id", "set_n"}

\* Database::migrate; a key written before it now holds the transformed value.
Migrate(f, order, fail) ==
    /\ nops < MaxOps
    /\ nops' = nops + 1
    /\ db' = migrate(db, f, order, fail).db
    /\ last' = [op |-> "migrate", key |-> <<>>, w |-> NotWritten,
                fault |-> [fail |-> fail # "none", step |-> fail], f |-> f,
                dropped |-> migrate(db, f, order, fail).dropped,
                res |-> migrate(db, f, order, fail).res, pre |-> db]
    /\ written' = [k \in Keys |->
                      IF migrate(db, f, order, fail).res.ok /\ written[k] \in Docs
                      THEN transform(f, written[k]) ELSE written[k]]

NextMigrate ==
    \/ NextReplica
    \/ \E f \in Transforms, order \in Orders(Range(db.primary_indexes)) : Migrate(f, order, "none")

SpecMigrate == Init /\ [][NextMigrate]_vars

\* Sets, deletes, compactions, new indexes and migrations of an engine
\* that may have an index and a replica.
NextCarry ==
    \/ Next
    \/ \E f \in Transforms, order \in Orders(Range(db.primary_indexes)) : Migrate(f, order, "none")

SpecCarry == Init /\ [][NextCarry]_vars

\* Compact on an engine whose file system fails at step `fail`.
CompactFailing(order, fail) ==
    /\ nops < MaxOps
    /\ Step("compact", <<>>, [fail |-> fail # "none", step |-> fail],
            compact(db, order, fail), NotWritten)

\* A file-backed engine without replicas.
InitRewrite == Init /\ db.source.kind = "file" /\ db.replicas = <<>>

\* Sets, deletes, and compact and migrate with a file system that may fail
\* at one of their steps.
NextRewrite ==
    \/ \E key \in Keys, value \in Docs : Set(key, value, NoFault)
    \/ \E key \in Keys, order \in Orders(DOMAIN db.secondary_indexes) :
          Delete(key, order, NoFault)
    \/ \E order \in Orders(Range(db.primary_indexes)),
          fail \in Range(RewriteSteps) \cup {"none"} : CompactFailing(order, fail)
    \/ \E order \in Orders(Range(db.primary_indexes)),
          fail \in Range(RewriteSteps) \cup {"none"} : Migrate("id", order, fail)

SpecRewrite == InitRewrite /\ [][NextRewrite]_vars

\* The file-system steps of a compaction before which the process may stop.
CrashSteps == {"create", "copy", "rename_old", "rename_new", "reopen", "remove_old"}

\* The process stops in compact just before the step `step`: the steps
\* before it have acted on the directory, and no operation follows.
CompactCrash(order, step) ==
    /\ nops < MaxOps
    /\ ~compact(db, order, step).res.ok
    /\ nops' = MaxOps
    /\ db' = compact(db, order, step).db
    /\ last' = [op |-> "crash", key |-> <<>>, w |-> NotWritten,
                fault |-> [fail |-> TRUE, step |-> step],
                res |-> compact(db, order, step).res, pre |-> db]
    /\ written' = written

\* A file-backed engine whose compactions may return an error from a step
\* of the file system, and whose process may stop inside a compaction.
NextCrash ==
    \/ \E key \in Keys, value \in Docs : Set(key, value, NoFault)
    \/ \E key \in Keys, order \in Orders(DOMAIN db.secondary_indexes) :
          Delete(key, order, NoFault)
    \/ \E order \in Orders(Range(db.primary_indexes)),
          fail \in Range(RewriteSteps) \cup {"none"} : CompactFailing(order, fail)
    \/ \E order \in Orders(Range(db.primary_indexes)), step \in CrashSteps :
          CompactCrash(order, step)

SpecCrash == InitRewrite /\ [][NextCrash]_vars

\* Length prefixes as a file may hold them: 1, 0, 2, 2^24, 2^63, 2^64 - 10
\* and 2^64 - 1.
Prefixes ==
    {word(1), word(0), word(2),
     <<0, 0, 0, 1, 0, 0, 0, 0>>,
     <<0, 0, 0, 0, 0, 0, 0, 128>>,
     <<246, 255, 255, 255, 255, 255, 255, 255>>,
     <<255, 255, 255, 255, 255, 255, 255, 255>>}

\* The offsets handed to read_entry: 0, 9, 18, 2^63, 2^64 - 8 and 2^64 - 1.
ReadOffsets ==
    {word(0), word(9), word(18),
     <<0, 0, 0, 0, 0, 0, 0, 128>>,
     <<248, 255, 255, 255, 255, 255, 255, 255>>,
     <<255, 255, 255, 255, 255, 255, 255, 255>>}

\* A source over a file of 18 bytes found at the path (FileSource::open, and
\* into_memory of it): a key-length prefix, a key byte, a value-length
\* prefix and a value byte.
InitDecode ==
    /\ \E kind \in {"memory", "file"}, kp \in Prefixes, vp \in Prefixes :
          db = [NewDatabase(kind) EXCEPT
                   !.source.data = kp \o <<97>> \o vp \o <<49>>,
                   !.source.len = 2 * U64Bytes + 2]
    /\ nops = 0
    /\ last = [op |-> "init", key |-> <<>>, w |-> NotWritten, fault |-> NoFault,
               res |-> Unit, pre |-> NewDatabase("memory")]
    /\ written = [k \in Keys |-> NotWritten]

\* source.read_entry(offset)
ReadEntry(offset, build) ==
    /\ nops < MaxOps
    /\ nops' = nops + 1
    /\ db' = db
    /\ last' = [op |-> "read_entry", key |-> <<>>, w |-> NotWritten, fault |-> NoFault,
                offset |-> offset, build |-> build,
                res |-> read_entry_wide(db.source, offset, build), pre |-> db]
    /\ written' = written

\* Database::from_source(source), as far as load_indexes.
LoadIndexes(build) ==
    /\ nops < MaxOps
    /\ nops' = nops + 1
    /\ db' = db
    /\ last' = [op |-> "load_indexes", key |-> <<>>, w |-> NotWritten, fault |-> NoFault,
                build |-> build, res |-> load_indexes_wide(db.source, build), pre |-> db]
    /\ written' = written

NextDecode ==
    \/ \E offset \in ReadOffsets, build \in {"debug", "release"} : ReadEntry(offset, build)
    \/ \E build \in {"debug", "release"} : LoadIndexes(build)

SpecDecode == InitDecode /\ [][NextDecode]_vars

\* A replica that rejects every write: an engine with a secondary index.
RejectingReplica ==
    [mode |-> "sync", delivered |-> <<>>,
     replica |-> [NewDatabase("memory") EXCEPT !.secondary_indexes = (<<"y">> :> <<>>)]]

\* An engine with one or two synchronous replicas, some of which reject.
InitFanout ==
    /\ \E kind \in {"memory", "file"},
          replicas \in {<<RejectingReplica>>,
                        <<SyncReplica("memory"), RejectingReplica>>,
                        <<RejectingReplica, SyncReplica("memory")>>,
                        <<SyncReplica("memory"), SyncReplica("file")>>} :
          db = [NewDatabase(kind) EXCEPT !.replicas = replicas]
    /\ nops = 0
    /\ last = [op |-> "init", key |-> <<>>, w |-> NotWritten, fault |-> NoFault,
               res |-> Unit, pre |-> NewDatabase("memory")]
    /\ written = [k \in Keys |-> NotWritten]

NextFanout ==
    \/ \E key \in Keys, value \in Docs : Set(key, value, NoFault)
    \/ \E key \in Keys : Delete(key, <<>>, NoFault)

SpecFanout == InitFanout /\ [][NextFanout]_vars

\* Replicator::new_async(replica): the channel, the thread and, as history,
\* the messages sent and where the drop of the replicator stands.
AsyncReplica(replica) ==
    [mode |-> "async", replica |-> replica, delivered |-> <<>>, queue |-> <<>>,
     sent |-> <<>>, worker |-> "running", teardown |-> "none"]

\* The asynchronous replicas of the engine, and whether its drop has begun.
Async == {i \in DOMAIN db.replicas : db.replicas[i].mode = "async"}
Dropping == \E i \in Async : db.replicas[i].teardown # "none"

\* An engine with an asynchronous replica, alone or beside a synchronous
\* one; the replica accepts every write or rejects every write.
InitAsync ==
    /\ \E kind \in {"memory", "file"},
          replicas \in {<<AsyncReplica(NewDatabase("memory"))>>,
                        <<AsyncReplica(NewDatabase("file"))>>,
                        <<AsyncReplica(RejectingReplica.replica)>>,
                        <<SyncReplica("memory"), AsyncReplica(NewDatabase("memory"))>>,
                        <<AsyncReplica(NewDatabase("memory")), RejectingReplica>>} :
          db = [NewDatabase(kind) EXCEPT !.replicas = replicas]
    /\ nops = 0
    /\ last = [op |-> "init", key |-> <<>>, w |-> NotWritten, fault |-> NoFault,
               res |-> Unit, pre |-> NewDatabase("memory")]
    /\ written = [k \in Keys |-> NotWritten]

\* The worker thread of replica i handles the next message of its queue.
Worker(i) ==
    /\ db.replicas[i].worker = "running"
    /\ db.replicas[i].queue # <<>>
    /\ db' = [db EXCEPT !.replicas[i] = worker(@)]
    /\ UNCHANGED <<nops, last, written>>

\* The engine is dropped: the replicator sends Shutdown ...
DropSend(i) ==
    /\ db.replicas[i].teardown = "none"
    /\ db' = [db EXCEPT !.replicas[i] = drop_send(@)]
    /\ UNCHANGED <<nops, last, written>>

\* ... and joins the thread, which blocks while the worker is running.
DropJoin(i) ==
    /\ db.replicas[i].teardown = "sent"
    /\ db.replicas[i].worker # "running"
    /\ db' = [db EXCEPT !.replicas[i] = drop_join(@)]
    /\ UNCHANGED <<nops, last, written>>

NextAsync ==
    \/ \E key \in Keys, value \in Docs : ~Dropping /\ Set(key, value, NoFault)
    \/ \E key \in Keys : ~Dropping /\ Delete(key, <<>>, NoFault)
    \/ \E i \in Async : Worker(i)
    \/ \E i \in Async : DropSend(i)
    \/ \E i \in Async : DropJoin(i)

SpecAsync == InitAsync /\ [][NextAsync]_vars

\* An engine whose first replica is asynchronous and rejects every write, so
\* that its worker ends at the first message; alone or before a second
\* asynchronous replica.
InitClosed ==
    /\ \E c \in {<<"memory", <<AsyncReplica(RejectingReplica.replica)>> >>,
                 <<"file", <<AsyncReplica(RejectingReplica.replica)>> >>,
                 <<"memory", <<AsyncReplica(RejectingReplica.replica),
                               AsyncReplica(NewDatabase("memory"))>> >>} :
          db = [NewDatabase(c[1]) EXCEPT !.replicas = c[2]]
    /\ nops = 0
    /\ last = [op |-> "init", key |-> <<>>, w |-> NotWritten, fault |-> NoFault,
               res |-> Unit, pre |-> NewDatabase("memory")]
    /\ written = [k \in Keys |-> NotWritten]

\* Sets and deletes of the parent, and the turns of the workers.
NextClosed ==
    \/ \E key \in Keys, value \in Docs : Set(key, value, NoFault)
    \/ \E key \in Keys : Delete(key, <<>>, NoFault)
    \/ \E i \in Async : Worker(i)

SpecClosed == InitClosed /\ [][NextClosed]_vars

\* A file-backed engine is converted into a memory engine ...
IntoMemory ==
    /\ nops < MaxOps
    /\ db.source.kind = "file"
    /\ Step("into_memory", <<>>, NoFault, into_memory(db), NotWritten)

\* ... and a memory engine written to a new file.
IntoFile ==
    /\ nops < MaxOps
    /\ db.source.kind = "memory"
    /\ Step("into_file", <<>>, NoFault, into_file(db), NotWritten)

\* Engines without replicas that are written, compacted and converted.
InitConvert == Init /\ db.replicas = <<>>

NextConvert ==
    \/ \E key \in Keys, value \in Docs : Set(key, value, NoFault)
    \/ \E key \in Keys, order \in Orders(DOMAIN db.secondary_indexes) :
          Delete(key, order, NoFault)
    \/ \E order \in Orders(Range(db.primary_indexes)) : Compact(order)
    \/ IntoMemory
    \/ IntoFile

SpecConvert == InitConvert /\ [][NextConvert]_vars

\* The number of operations in the runs that are queried.
MaxQueryOps == 3

\* The values stored in the engines that are queried: objects whose member
\* y is a number, and one whose member y is a string.
QueryDocs == {JObj(JNum(1), JNum(1)), JObj(JNum(2), JNum(2)), JObj(JStr(97), JNum(1))}

\* A memory engine without replicas, with or without an index on y.
InitQuery == Init /\ db.source.kind = "memory" /\ db.replicas = <<>>

\* Database::iter, drained: `keys` is the order in which the HashMap of
\* the primary index yields its values.
Iter(keys) ==
    /\ nops < MaxQueryOps
    /\ db' = db
    /\ nops' = nops + 1
    /\ written' = written
    /\ last' = [op |-> "iter", key |-> <<>>, w |-> NotWritten, fault |-> NoFault,
                keys |-> keys, res |-> Ok(items(db, keys)), pre |-> db]

\* The predicates of the queries: an ordering and a closure on y, an
\* equality on n, and an ordering and an equality on a member no value has.
QueryPredicates ==
    {Gte(<<"y">>, 2), Closure(<<"y">>, "is_number"), Eq(<<"n">>, JNum(1)),
     Lt(<<"z">>, 1), Eq(<<"z">>, JNull)}

\* The queries that are composed: single predicates and one disjunction.
Operands ==
    {from_predicate(p) : p \in QueryPredicates}
        \cup {bitor(from_predicate(Gte(<<"y">>, 2)), from_predicate(Eq(<<"n">>, JNum(1))))}

\* l & r, l | r, or l alone.
compose(c, l, r) ==
    CASE c = "And" -> bitand(l, r)
      [] c = "Or" -> bitor(l, r)
      [] OTHER -> l

\* Database::query(&compose(c, l, r)), with `keys` the order in which the
\* HashMap of the primary index yields its values: whether the planner
\* finds the query optimisable, and the offsets of the returned iterator.
Query(c, l, r, keys) ==
    /\ nops < MaxQueryOps
    /\ db' = db
    /\ nops' = nops + 1
    /\ written' = written
    /\ last' = [op |-> "query", key |-> <<>>, w |-> NotWritten, fault |-> NoFault,
                c |-> c, l |-> l, r |-> r, q |-> compose(c, l, r), keys |-> keys,
                optimised |-> is_optimisable(compose(c, l, r), db),
                res |-> execute(compose(c, l, r), db, keys), pre |-> db]

NextQuery ==
    \/ \E key \in Keys, value \in QueryDocs : nops < MaxQueryOps /\ Set(key, value, NoFault)
    \/ \E key \in Keys, order \in Orders(DOMAIN db.secondary_indexes) :
          nops < MaxQueryOps /\ Delete(key, order, NoFault)
    \/ \E keys \in Orders(Range(db.primary_indexes)) : Iter(keys)
    \/ \E l \in Operands, keys \in Orders(Range(db.primary_indexes)) :
          Query("From", l, l, keys)
    \/ \E c \in {"And", "Or"}, l \in Operands,
          r \in {from_predicate(Closure(<<"y">>, "is_number")),
                 from_predicate(Eq(<<"n">>, JNum(1)))},
          keys \in Orders(Range(db.primary_indexes)) : Query(c, l, r, keys)

SpecQuery == InitQuery /\ [][NextQuery]_vars


(***************************************************************************)
(* Properties of the engine.                                               *)
(***************************************************************************)
\* The keys an engine can currently read.
live(d) == {k \in DOMAIN d.primary_indexes : get(d, k).ok}

\* C1: get(k) returns the value of the last successful set(k, v) with v
\* not null, whatever sets, deletes and compactions came in between.
LastWriteWins ==
    \A k \in Keys :
        written[k] \in Docs \ {JNull} =>
            get(db, k) = Ok(written[k])

\* An overwrite has succeeded on a key that held another value.
LastWriteWinsWitness ==
    /\ last.op = "set" /\ last.res.ok
    /\ written[last.key] # JNull
    /\ get(last.pre, last.key).ok
    /\ get(last.pre, last.key) # get(db, last.key)

\* C2: once delete(k) has succeeded, get(k) is InvalidKey and no item of
\* iter() comes from an entry of k, until a later set(k, _) succeeds; and
\* the delete has appended the delete marker of k, so the log is not empty.
DeletedStaysDeleted ==
    /\ \A k \in Keys :
          written[k] = Deleted =>
            /\ get(db, k) = Err("InvalidKey")
            /\ \A index \in DOMAIN iter(db) :
                  read_entry(db.source, index).ok =>
                      read_entry(db.source, index).val.key # k
    /\ (last.op = "delete" /\ last.res.ok) =>
            /\ db.source.data # <<>>
            /\ read_entry(db.source, Len(last.pre.source.data)) =
                  Ok([key |-> last.key, value |-> NullText,
                      next |-> Len(db.source.data)])

\* A key has been deleted from an engine that still holds another key.
DeletedStaysDeletedWitness ==
    /\ last.op = "delete" /\ last.res.ok
    /\ written[last.key] = Deleted
    /\ get(last.pre, last.key).ok
    /\ live(db) # {}

\* C3: for every secondary index f and every key k of the primary index,
\* the current offset of k is in the bucket of the value extracted at f from
\* the current value of k, and in no other bucket of f.
CurrentOffsetInItsBucket ==
    \A f \in DOMAIN db.secondary_indexes :
        \A k \in DOMAIN db.primary_indexes :
            LET e == read_entry(db.source, db.primary_indexes[k])
            IN /\ e.ok
               /\ from_str(e.val.value).ok
               /\ \A b \in DOMAIN db.secondary_indexes[f] :
                     (db.primary_indexes[k] \in db.secondary_indexes[f][b])
                        <=> (b = get_value(f, from_str(e.val.value).val))
               /\ get_value(f, from_str(e.val.value).val) \in DOMAIN db.secondary_indexes[f]

\* An indexed engine has overwritten a key with a value that extracts
\* differently.
CurrentOffsetInItsBucketWitness ==
    /\ last.op = "set" /\ last.res.ok
    /\ <<"y">> \in DOMAIN db.secondary_indexes
    /\ get(last.pre, last.key).ok
    /\ written[last.key] # JNull
    /\ get_value(<<"y">>, get(last.pre, last.key).val) # get_value(<<"y">>, written[last.key])

\* C4: a set that overwrites a key at offset_old takes offset_old out of
\* the bucket that held it, for every index; hence every offset in any
\* bucket is the current primary offset of a live key.
NoSupersededOffsets ==
    /\ (last.op = "set" /\ last.res.ok /\ last.key \in DOMAIN last.pre.primary_indexes) =>
            \A f \in DOMAIN db.secondary_indexes :
                \A b \in DOMAIN db.secondary_indexes[f] :
                    last.pre.primary_indexes[last.key] \notin db.secondary_indexes[f][b]
    /\ \A f \in DOMAIN db.secondary_indexes :
            \A b \in DOMAIN db.secondary_indexes[f] :
                \A index \in db.secondary_indexes[f][b] :
                    \E k \in live(db) : db.primary_indexes[k] = index

\* The queries put to the engine: one ordering predicate, a conjunction over
\* two fields, a disjunction over two fields, a range on one field, and a
\* conjunction with a closure.
Queries ==
    { [predicates |-> <<Gte(<<"y">>, 2)>>, predicate_combination |-> "And"],
      [predicates |-> <<Eq(<<"y">>, JNum(1)), Eq(<<"n">>, JNum(1))>>,
       predicate_combination |-> "And"],
      [predicates |-> <<Eq(<<"y">>, JNum(2)), Eq(<<"n">>, JNum(2))>>,
       predicate_combination |-> "Or"],
      [predicates |-> <<Gte(<<"y">>, 1), Lt(<<"y">>, 2)>>, predicate_combination |-> "And"],
      [predicates |-> <<Closure(<<"n">>, "is_number"), Lte(<<"y">>, 1)>>,
       predicate_combination |-> "And"] }

\* The live keys whose current value satisfies q.
satisfying(q, d) == {k \in live(d) : matches(q, get(d, k).val) = Ok(TRUE)}

\* C5: a query that evaluates without error yields, exactly once each, the
\* live keys whose current value satisfies it, each with its current value,
\* and nothing else, on the optimised and on the unoptimised path.
QueryYieldsSatisfyingKeys ==
    \A q \in Queries :
        \A keys \in Orders(Range(db.primary_indexes)) :
            LET r == execute(q, db, keys)
            IN r.ok =>
                /\ \A i \in 1..Len(r.val) :
                      /\ get_at_index(db, r.val[i]).ok
                      /\ get_at_index(db, r.val[i]).val.key \in satisfying(q, db)
                /\ \A k \in satisfying(q, db) :
                      Cardinality({i \in 1..Len(r.val) :
                          get_at_index(db, r.val[i]) =
                              Ok([key |-> k, value |-> get(db, k).val])}) = 1

\* The call reached source.write_entry and write_entry returned an error.
write_entry_failed ==
    /\ last.fault.fail
    /\ \/ last.op = "set"
       \/ /\ last.op = "delete"
          /\ last.key \in DOMAIN last.pre.primary_indexes
          /\ get_at_index(last.pre, last.pre.primary_indexes[last.key]).ok
          /\ \A f \in DOMAIN last.pre.secondary_indexes :
                get_value(f, get(last.pre, last.key).val)
                    \in DOMAIN last.pre.secondary_indexes[f]

\* C6: when write_entry fails during set or delete, the primary index and
\* every secondary index are as they were before the call, and no replica
\* has been written.
FailedWriteKeepsIndexes ==
    write_entry_failed =>
        /\ last.res = Err("Io")
        /\ db.primary_indexes = last.pre.primary_indexes
        /\ db.secondary_indexes = last.pre.secondary_indexes
        /\ db.replicas = last.pre.replicas

\* The engine and the engines that replicate it.
Engines == {db} \cup {db.replicas[i].replica : i \in DOMAIN db.replicas}

\* C7: in every engine, also one written through Replica::set, every key of
\* the primary index maps to the offset of a well-formed entry that carries
\* the key and whose value is not the delete marker.
PrimaryPointsAtValues ==
    \A e \in Engines :
        \A k \in DOMAIN e.primary_indexes :
            /\ read_entry(e.source, e.primary_indexes[k]).ok
            /\ read_entry(e.source, e.primary_indexes[k]).val.key = k
            /\ read_entry(e.source, e.primary_indexes[k]).val.value # NullText

RECURSIVE scan(_, _, _)
\* The entries of the log read one after the other from `offset`: their
\* offsets, and whether the bytes are entries up to the last one.
scan(src, offset, entries) ==
    IF offset >= Len(src.data) THEN [ok |-> offset = Len(src.data), entries |-> entries]
    ELSE IF ~read_entry(src, offset).ok THEN [ok |-> FALSE, entries |-> entries]
    ELSE scan(src, read_entry(src, offset).val.next,
              Append(entries, [offset |-> offset,
                               key |-> read_entry(src, offset).val.key,
                               value |-> read_entry(src, offset).val.value]))

\* The entries of the whole file.
log(src) == scan(src, 0, <<>>)

\* Every offset an index holds.
indexed_offsets(d) ==
    Range(d.primary_indexes)
        \cup UNION {UNION Range(d.secondary_indexes[f]) : f \in DOMAIN d.secondary_indexes}

\* C8: on a file-backed engine whose appends may fail part-way, every
\* offset in the primary index or in a secondary bucket is the position of
\* the key length of an entry of the file, and the logical length of the
\* source is the physical length of the file.
OffsetsAtEntries ==
    /\ db.source.len = Len(db.source.data)
    /\ \A index \in indexed_offsets(db) :
          \E i \in DOMAIN log(db.source).entries :
              log(db.source).entries[i].offset = index

\* How often iter() yields the pair (k, v).
yielded(d, k, v) ==
    Cardinality({index \in DOMAIN iter(d) : iter(d)[index] = Ok([key |-> k, value |-> v])})

\* C9: a successful compact() leaves get(k) for every key k and the
\* multiset of (key, value) pairs that iter() yields as they were.
CompactKeepsView ==
    (last.op = "compact" /\ last.res.ok) =>
        /\ \A k \in Keys : get(db, k) = get(last.pre, k)
        /\ \A k \in Keys : \A v \in Docs : yielded(db, k, v) = yielded(last.pre, k, v)

\* A compaction has dropped superseded entries and kept a live key.
CompactKeepsViewWitness ==
    /\ last.op = "compact" /\ last.res.ok
    /\ live(db) # {}
    /\ Len(db.source.data) < Len(last.pre.source.data)
    /\ db.primary_indexes # last.pre.primary_indexes

\* C10: after a successful compact() the log is one entry per live key, no
\* entry has the value null, and the length of the log is the sum of the
\* sizes of those entries: smaller than before when a superseded or deleted
\* entry existed, and 0 when no key is live.
CompactLeavesLiveEntries ==
    (last.op = "compact" /\ last.res.ok) =>
        /\ log(db.source).ok
        /\ db.source.len = Len(db.source.data)
        /\ \A k \in live(db) :
              Cardinality({i \in DOMAIN log(db.source).entries :
                              log(db.source).entries[i].key = k}) = 1
        /\ \A i \in DOMAIN log(db.source).entries :
              /\ log(db.source).entries[i].key \in live(db)
              /\ log(db.source).entries[i].value # NullText
        /\ Len(log(last.pre.source).entries) > Cardinality(live(last.pre)) =>
              db.source.len < last.pre.source.len
        /\ live(db) = {} => db.source.len = 0

\* C11: after successful sets and deletes the primary index that
\* load_indexes replays from the log is the primary index the engine
\* maintains, and the reopened engine has the same key-to-value map.
ReplayedIndexIsMaintainedIndex ==
    /\ load_indexes(db.source) = Ok(db.primary_indexes)
    /\ reopen(db).ok
    /\ reopen(db).val.primary_indexes = db.primary_indexes
    /\ \A k \in Keys : get(reopen(db).val, k) = get(db, k)

\* C12: migrate(f) returns an engine with the same live keys, in which
\* get(k) is f of the value k had; its log holds one entry per live key and
\* neither superseded nor deleted entries; for the identity every get(k) is
\* as before.
MigrateTransformsLiveEntries ==
    (last.op = "migrate" /\ last.res.ok) =>
        /\ live(db) = live(last.pre)
        /\ \A k \in live(last.pre) :
              get(db, k) = Ok(transform(last.f, get(last.pre, k).val))
        /\ log(db.source).ok
        /\ \A i \in DOMAIN log(db.source).entries :
              /\ log(db.source).entries[i].key \in live(db)
              /\ log(db.source).entries[i].value # NullText
              /\ db.primary_indexes[log(db.source).entries[i].key] =
                    log(db.source).entries[i].offset
        /\ last.f = "id" => \A k \in Keys : get(db, k) = get(last.pre, k)

DeleteOfAbsentKeyIsInert ==
    (last.op = "delete" /\ last.key \notin DOMAIN last.pre.primary_indexes) =>
        /\ last.res = Err("InvalidKey")
        /\ db.source = last.pre.source
        /\ db.primary_indexes = last.pre.primary_indexes
        /\ db.secondary_indexes = last.pre.secondary_indexes
        /\ db.replicas = last.pre.replicas

\* An absent key has been deleted from an indexed engine with a replica
\* that holds another key.
DeleteOfAbsentKeyIsInertWitness ==
    /\ last.op = "delete"
    /\ last.key \notin DOMAIN last.pre.primary_indexes
    /\ last.pre.primary_indexes # <<>>
    /\ last.pre.secondary_indexes # <<>>
    /\ last.pre.replicas # <<>>

\* C15: for a parent with a synchronous engine replica that started empty
\* and has no secondary index, after successful sets and deletes on the
\* parent the reopened log of the replica has the key-to-value map the
\* parent shows.
ReplicaLogReplaysParentMap ==
    \A i \in DOMAIN db.replicas :
        /\ reopen(db.replicas[i].replica).ok
        /\ \A k \in Keys : get(reopen(db.replicas[i].replica).val, k) = get(db, k)

\* The parent has a replica, holds a key and has just deleted another one.
ReplicaLogReplaysParentMapWitness ==
    /\ db.replicas # <<>>
    /\ last.op = "delete" /\ last.res.ok
    /\ live(db) # {}
    /\ Len(log(db.replicas[1].replica.source).entries) = MaxOps

\* The error, if any, of the first replica of the last call that returned one.
replica_error ==
    IF last.op = "set"
    THEN replicate(last.pre.replicas, 1, last.key, to_string(last.w)).res
    ELSE replicate(last.pre.replicas, 1, last.key, NullText).res

\* C17: when a synchronous replica returns an error during set(k, v) or
\* delete(k), the call returns that error and the write of the parent is
\* committed: its entry ends the log of the parent and get(k) on the parent
\* shows the new value, or InvalidKey after a delete.
ReplicaErrorAfterCommit ==
    (/\ last.op \in {"set", "delete"}
     /\ last.op = "delete" => get(last.pre, last.key).ok
     /\ ~replica_error.ok) =>
        /\ last.res = replica_error
        /\ log(db.source).ok
        /\ Len(log(db.source).entries) = Len(log(last.pre.source).entries) + 1
        /\ log(db.source).entries[Len(log(db.source).entries)].key = last.key
        /\ last.op = "set" =>
              /\ log(db.source).entries[Len(log(db.source).entries)].value = to_string(last.w)
              /\ get(db, last.key) = IF last.w = JNull THEN Err("InvalidKey") ELSE Ok(last.w)
        /\ last.op = "delete" =>
              /\ log(db.source).entries[Len(log(db.source).entries)].value = NullText
              /\ get(db, last.key) = Err("InvalidKey")

\* A delete of a live key has returned the error of the second replica.
ReplicaErrorAfterCommitWitness ==
    /\ last.op = "delete"
    /\ get(last.pre, last.key).ok
    /\ last.res = Err("Index")
    /\ Len(db.replicas) = 2
    /\ db.replicas[1].delivered # last.pre.replicas[1].delivered

\* The Replicate messages among `msgs`, as pairs.
RECURSIVE pairs(_)
pairs(msgs) ==
    IF msgs = <<>> THEN <<>>
    ELSE IF Head(msgs).type = "Shutdown" THEN pairs(Tail(msgs))
    ELSE <<Pair(Head(msgs).key, Head(msgs).value)>> \o pairs(Tail(msgs))

\* The entries of the log of an engine, as pairs.
applied(d) == [i \in DOMAIN log(d.source).entries |->
                  Pair(log(d.source).entries[i].key, log(d.source).entries[i].value)]

\* C14: when an engine with an asynchronous replica is torn down, the worker
\* has applied every message enqueued before the teardown, once and in the
\* order of the queue, by the time it has ended; the teardown returns only
\* after the worker has ended; nothing is applied after Shutdown.
TeardownDrainsQueue ==
    \A i \in Async :
        /\ (db.replicas[i].teardown # "none" /\ db.replicas[i].worker # "running") =>
              applied(db.replicas[i].replica) = pairs(db.replicas[i].sent)
        /\ db.replicas[i].teardown \in {"returned", "panicked"} =>
              db.replicas[i].worker # "running"
        /\ \E n \in 0..Len(db.replicas[i].sent) :
              applied(db.replicas[i].replica) = SubSeq(pairs(db.replicas[i].sent), 1, n)

\* What has been handed to a replicator: the pairs passed to Replica::set of
\* a synchronous replica, the pairs enqueued for an asynchronous one.
handed(r) == IF r.mode = "sync" THEN r.delivered ELSE pairs(r.sent)

\* The pair a set or a delete passes to the replicas.
replicated(l) == Pair(l.key, IF l.op = "set" THEN to_string(l.w) ELSE NullText)

\* C13: the pairs delivered to a replica, synchronous or asynchronous, are
\* in order and content the entries that the set and delete calls that
\* returned Ok have appended to the log of the parent since the replica was
\* attached: a call adds its pair when it returns Ok and nothing when it
\* returns an error, and a worker delivers what was enqueued, losing nothing.
DeliveredIsSuccessfulWrites ==
    [][/\ nops' = nops + 1 =>
             \A i \in DOMAIN db.replicas :
                 handed(db'.replicas[i]) =
                     IF last'.res.ok THEN Append(handed(db.replicas[i]), replicated(last'))
                     ELSE handed(db.replicas[i])
       /\ \A i \in DOMAIN db.replicas :
             db.replicas[i].mode = "async" =>
                 db'.replicas[i].delivered \o pairs(db'.replicas[i].queue) =
                     pairs(db'.replicas[i].sent)]_vars

\* The last operation was a compact or a migrate of a file-backed engine
\* that returned an error.
rewrite_failed ==
    /\ last.op \in {"compact", "migrate"}
    /\ last.pre.source.kind = "file"
    /\ ~last.res.ok

\* C19: when a file-backed compact or migrate fails before the first rename
\* (while creating or writing the temporary file), the file at the original
\* path is byte for byte what it was and the temporary sibling does not
\* exist when the call returns.
FailureBeforeRenameCleansUp ==
    (rewrite_failed /\ last.fault.step \in {"create", "copy"}) =>
        /\ db.source.path = last.pre.source.path
        /\ at_path(db.source) = at_path(last.pre.source)
        /\ db.source.jdbtmp.state = "none"

\* C20: when a compact or migrate of an engine whose file is at its path
\* returns an error, at whatever step, there is a file at the original path,
\* and replaying it gives for every key what get gave before the call.
FailedRewriteKeepsFile ==
    (rewrite_failed /\ last.pre.source.path.state = "open") =>
        /\ db.source.path.state # "none"
        /\ reopen(db).ok
        /\ \A k \in Keys : get(reopen(db).val, k) = get(last.pre, k)

\* The offsets of `seq` ascend.
ascending(seq) == \A i, j \in DOMAIN seq : i < j => seq[i] < seq[j]

\* C21: iter() yields the live entries in ascending offset order, the order
\* in which their current values were written.
IterAscendingOffsets ==
    last.op = "iter" =>
        /\ ascending(last.keys)
        /\ \A i \in DOMAIN last.keys : last.res.val[i] = get_at_index(last.pre, last.keys[i])

\* The engine is a memory engine converted from a file that is still at its path.
snapshot(d) == d.source.kind = "memory" /\ "path" \in DOMAIN d.source

\* C22: into_memory and into_file give an engine in which get(k) returns for
\* every key what it returned before the conversion, every offset of the
\* primary index reading the same entry; and no later operation on an engine
\* converted into memory changes the bytes of the file it was read from.
ConversionIsSnapshot ==
    [][/\ last'.op \in {"into_memory", "into_file"} =>
             /\ last'.res.ok
             /\ db'.primary_indexes = db.primary_indexes
             /\ db'.secondary_indexes = db.secondary_indexes
             /\ \A k \in Keys : get(db', k) = get(db, k)
             /\ \A k \in DOMAIN db.primary_indexes :
                   get_at_index(db', db.primary_indexes[k]) =
                       get_at_index(db, db.primary_indexes[k])
       /\ last'.op = "into_memory" => db'.source.path = Closed(db.source.data)
       /\ (snapshot(db) /\ snapshot(db')) => db'.source.path = db.source.path]_vars

\* A key was set in a memory engine converted from a file with a live key:
\* the engine has the new entry, the file does not.
ConversionIsSnapshotWitness ==
    /\ snapshot(db)
    /\ last.op = "set" /\ last.res.ok
    /\ live(last.pre) # {}
    /\ snapshot(last.pre)
    /\ db.source.path.data = last.pre.source.data
    /\ db.source.data # db.source.path.data

\* C23: a write_entry call that succeeds returns the logical length the
\* source had before the call, read_entry at the returned offset yields the
\* key and the value bytes just written, and the append changes nothing of
\* what read_entry returns for the offsets returned earlier.
WriteEntryOffsets ==
    (last.op = "set" /\ last.res.ok) =>
        /\ db.primary_indexes[last.key] = last.pre.source.len
        /\ read_entry(db.source, db.primary_indexes[last.key]).ok
        /\ read_entry(db.source, db.primary_indexes[last.key]).val.key = last.key
        /\ read_entry(db.source, db.primary_indexes[last.key]).val.value = to_string(last.w)
        /\ \A o \in Range(last.pre.primary_indexes) :
               read_entry(db.source, o) = read_entry(last.pre.source, o)

\* C24: the engine returned by migrate has the migrated log and the primary
\* index replayed from it, no secondary index and no replica; the replicas
\* of the consumed engine are dropped as they were, without a write.
MigrateCarriesLogOnly ==
    (last.op = "migrate" /\ last.res.ok) =>
        /\ db.secondary_indexes = <<>>
        /\ db.replicas = <<>>
        /\ load_indexes(db.source) = Ok(db.primary_indexes)
        /\ last.dropped = last.pre.replicas

\* An engine with an index, a replica that has received a write and a live
\* key has been migrated.
MigrateCarriesLogOnlyWitness ==
    /\ last.op = "migrate" /\ last.res.ok
    /\ last.pre.secondary_indexes # <<>>
    /\ last.pre.replicas # <<>>
    /\ last.pre.replicas[1].delivered # <<>>
    /\ live(db) # {}

\* The field of predicate i of q has a secondary index in d.
field_indexed(q, d, i) == q.predicates[i].key \in DOMAIN d.secondary_indexes

\* The offsets of `keys`, in their order, whose entry satisfies q.
RECURSIVE matching(_, _, _)
matching(q, d, keys) ==
    IF keys = <<>> THEN <<>>
    ELSE (IF matches(q, get_at_index(d, Head(keys)).val.value) = Ok(TRUE)
          THEN <<Head(keys)>> ELSE <<>>) \o matching(q, d, Tail(keys))

\* C25: the planner takes the optimised path exactly when the connective is
\* AND and the field of at least one predicate has a secondary index, or the
\* connective is OR and the field of every predicate has one; otherwise it
\* takes the linear path, which evaluates the whole query on every entry of
\* the primary index and yields those that satisfy it.
PlannerChoosesPath ==
    last.op = "query" =>
        /\ last.optimised <=>
              \/ /\ last.q.predicate_combination = "And"
                 /\ \E i \in DOMAIN last.q.predicates : field_indexed(last.q, last.pre, i)
              \/ /\ last.q.predicate_combination = "Or"
                 /\ \A i \in DOMAIN last.q.predicates : field_indexed(last.q, last.pre, i)
        /\ last.optimised => last.res = execute_optimised(last.q, last.pre)
        /\ ~last.optimised =>
              /\ last.res = execute_unoptimised(last.q, last.pre, last.keys)
              /\ last.res.ok => last.res.val = matching(last.q, last.pre, last.keys)
              /\ last.res.ok =>
                    \A i \in DOMAIN last.keys :
                        matches(last.q, get_at_index(last.pre, last.keys[i]).val.value).ok

\* A disjunction of which only one field is indexed has taken the linear
\* path over two entries and yielded them.
PlannerChoosesPathWitness ==
    /\ last.op = "query"
    /\ last.q.predicate_combination = "Or"
    /\ \E i \in DOMAIN last.q.predicates : field_indexed(last.q, last.pre, i)
    /\ ~last.optimised
    /\ last.res.ok
    /\ Len(last.keys) = 2
    /\ last.res.val = last.keys

\* C26: a closure predicate is never treated as indexed, even when its field
\* has a secondary index: a query in which every predicate on an indexed
\* field is a closure is not optimisable and takes the linear path.
ClosureIsResidual ==
    (/\ last.op = "query"
     /\ \A i \in DOMAIN last.q.predicates :
            field_indexed(last.q, last.pre, i) => last.q.predicates[i].kind = "Closure")
        => /\ ~last.optimised
           /\ last.res = execute_unoptimised(last.q, last.pre, last.keys)

\* C27: the results of query() are yielded in ascending offset order, on the
\* optimised path and on the linear path alike.
QueryAscendingOffsets ==
    (last.op = "query" /\ last.res.ok) => ascending(last.res.val)

\* Every predicate of `predicates` is true of the value.
all_match(predicates, json) ==
    \A i \in DOMAIN predicates : predicate_matches(predicates[i], json) = Ok(TRUE)

\* C28: composing queries flattens them: q1 & q2 has the predicates of q1
\* followed by those of q2 with connective AND and q1 | q2 the same list with
\* connective OR, whatever the connectives of q1 and q2 were; so a
\* conjunction built from a disjunction, (a | b) & c, matches a value exactly
\* when a, b and c all match it.
ComposeFlattens ==
    (last.op = "query" /\ last.c \in {"And", "Or"}) =>
        /\ last.q.predicates = last.l.predicates \o last.r.predicates
        /\ last.q.predicate_combination = last.c
        /\ last.c = "And" =>
              \A json \in QueryDocs :
                  matches(last.q, json) = Ok(TRUE) <=> all_match(last.q.predicates, json)

\* (a | b) & c has been run over an entry of which b and c are true and a is
\* false, and the entry is not in the result.
ComposeFlattensWitness ==
    /\ last.op = "query"
    /\ last.c = "And"
    /\ last.l.predicate_combination = "Or"
    /\ Len(last.l.predicates) = 2
    /\ last.res.ok
    /\ \E i \in DOMAIN last.keys :
          /\ predicate_matches(last.q.predicates[1],
                               get_at_index(last.pre, last.keys[i]).val.value) = Ok(FALSE)
          /\ predicate_matches(last.q.predicates[2],
                               get_at_index(last.pre, last.keys[i]).val.value) = Ok(TRUE)
          /\ predicate_matches(last.q.predicates[3],
                               get_at_index(last.pre, last.keys[i]).val.value) = Ok(TRUE)
          /\ \A j \in DOMAIN last.res.val : last.res.val[j] # last.keys[i]

RECURSIVE missing(_, _)
\* The path names a member that the value does not have.
missing(index, json) ==
    /\ index # <<>>
    /\ \/ json.t # "obj"
       \/ Head(index) \notin DOMAIN json.f
       \/ missing(Tail(index), json.f[Head(index)])

\* The predicates of the queries, and ordering and inequality predicates on
\* the same fields.
ComparisonPredicates ==
    QueryPredicates \cup {Gt(<<"y">>, 1), Lte(<<"z">>, 2), Lt(<<"n">>, 2),
                          Ne(<<"z">>, JNull), Ne(<<"z">>, JNum(1)), Eq(<<"z">>, JNum(1))}

\* The decoded values of the entries of the primary index.
stored(d) == {get_at_index(d, d.primary_indexes[k]).val.value : k \in DOMAIN d.primary_indexes}

\* C29: an ordering predicate (Gt, Gte, Lt, Lte) evaluated on a value whose
\* field path is missing or is not a JSON number returns JsonError, never true
\* or false, and a linear query of that single predicate fails with it; an Eq
\* or Ne predicate on a missing field path compares JSON null with the
\* constant and returns no error.
OrderingNeedsNumber ==
    /\ \A p \in ComparisonPredicates, json \in stored(db) :
          /\ (/\ p.kind \in {"Gt", "Gte", "Lt", "Lte"}
              /\ missing(p.key, json) \/ get_value(p.key, json).t # "num")
                 => predicate_matches(p, json) = Err("JsonError")
          /\ (p.kind = "Eq" /\ missing(p.key, json))
                 => predicate_matches(p, json) = Ok(JNull = p.right)
          /\ (p.kind = "Ne" /\ missing(p.key, json))
                 => predicate_matches(p, json) = Ok(JNull # p.right)
    /\ (/\ last.op = "query"
        /\ last.c = "From"
        /\ ~last.optimised
        /\ last.q.predicates[1].kind \in {"Gt", "Gte", "Lt", "Lte"}
        /\ \E json \in stored(last.pre) : get_value(last.q.predicates[1].key, json).t # "num")
           => last.res = Err("JsonError")

\* A linear query of z < 1 over two entries without a member z has failed
\* with JsonError.
OrderingNeedsNumberWitness ==
    /\ last.op = "query"
    /\ last.c = "From"
    /\ ~last.optimised
    /\ last.q.predicates[1] = Lt(<<"z">>, 1)
    /\ Cardinality(stored(last.pre)) = 2
    /\ \A json \in stored(last.pre) : missing(<<"z">>, json)
    /\ last.res = Err("JsonError")

\* C30: at the start of a file rewrite (compact or migrate), a temporary
\* sibling and an old sibling left by an earlier attempt are each removed
\* before the new temporary file is created: when that creation is the step
\* that fails, neither sibling exists when the call returns.
SiblingsRemovedFirst ==
    (rewrite_failed /\ last.fault.step = "create") =>
        /\ db.source.jdbtmp.state = "none"
        /\ db.source.jdbold.state = "none"

\* The bytes of the old sibling of a file source.
at_old(src) == IF src.jdbold.state = "open" THEN src.data ELSE src.jdbold.data

\* A file of these bytes is a complete log that replays to what get gives in d.
holds_log(bytes, d) ==
    /\ from_source(file_open(bytes)).ok
    /\ \A k \in Keys : get(from_source(file_open(bytes)).val, k) = get(d, k)

\* C31: if the process stops between any two file-system steps of a file
\* compaction, at least one of the original path and the old sibling path
\* holds a complete log that replays to the visible state before the
\* compaction; the old sibling is gone only when the log at the original
\* path is such a log.
CrashKeepsALog ==
    last.op = "crash" =>
        /\ \/ db.source.path.state # "none" /\ holds_log(at_path(db.source), last.pre)
           \/ db.source.jdbold.state # "none" /\ holds_log(at_old(db.source), last.pre)
        /\ db.source.jdbold.state = "none" =>
              db.source.path.state # "none" /\ holds_log(at_path(db.source), last.pre)

\* The offsets in the buckets of a secondary index.
bucket_offsets(index) == UNION {index[v] : v \in DOMAIN index}

\* C32: after a successful compact() on an engine with secondary indexes, the
\* secondary buckets in memory are the buckets obtained by reopening the
\* compacted log and registering the same fields again: the same set of
\* offsets under each field value, every one of them the offset of an entry
\* of the compacted log that the primary index points at.
CompactRebuildsBuckets ==
    (last.op = "compact" /\ last.res.ok) =>
        /\ reopen(db).ok
        /\ \A f \in DOMAIN db.secondary_indexes :
              /\ with_index(reopen(db).val, f).res.ok
              /\ with_index(reopen(db).val, f).db.secondary_indexes[f] = db.secondary_indexes[f]
              /\ bucket_offsets(db.secondary_indexes[f]) = Range(db.primary_indexes)
              /\ \A o \in bucket_offsets(db.secondary_indexes[f]) : read_entry(db.source, o).ok

\* A compact moved a live entry of an indexed engine: the offsets in the
\* buckets are other offsets than before.
CompactRebuildsBucketsWitness ==
    /\ last.op = "compact" /\ last.res.ok
    /\ \E f \in DOMAIN db.secondary_indexes :
          /\ bucket_offsets(db.secondary_indexes[f]) # {}
          /\ bucket_offsets(db.secondary_indexes[f]) \cap
                 bucket_offsets(last.pre.secondary_indexes[f]) = {}

\* C33: a set(k, v) whose value serialises to the four bytes null is treated
\* as a delete: afterwards k is absent from the primary index and its offsets
\* from every secondary bucket, get(k) returns InvalidKey, and iter() yields
\* no item for k (every offset it walks reads an entry of another key).
NullSetIsDelete ==
    (last.op = "set" /\ last.res.ok /\ to_string(last.w) = NullText) =>
        /\ last.key \notin DOMAIN db.primary_indexes
        /\ \A f \in DOMAIN db.secondary_indexes :
              \A o \in bucket_offsets(db.secondary_indexes[f]) :
                  read_entry(db.source, o).val.key # last.key
        /\ get(db, last.key) = Err("InvalidKey")
        /\ \A o \in Range(db.primary_indexes) : read_entry(db.source, o).val.key # last.key

\* Before the last operation the queue of an asynchronous replica was closed,
\* its worker having ended, and every replica before it was asynchronous.
queue_closed ==
    \E i \in DOMAIN last.pre.replicas :
        /\ last.pre.replicas[i].mode = "async"
        /\ last.pre.replicas[i].worker # "running"
        /\ \A j \in 1..(i - 1) : last.pre.replicas[j].mode = "async"

\* C34: when the queue of an asynchronous replica is closed because its worker
\* has terminated, a following set or delete on the parent returns
\* ReplicaError, and the write of the parent is already in its log, at the
\* end, and visible to get.
ClosedQueueIsReplicaError ==
    (/\ last.op \in {"set", "delete"}
     /\ last.op = "delete" => get(last.pre, last.key).ok
     /\ queue_closed) =>
        /\ last.res = Err("ReplicaError")
        /\ db.source.len > last.pre.source.len
        /\ read_entry(db.source, last.pre.source.len).ok
        /\ read_entry(db.source, last.pre.source.len).val.key = last.key
        /\ read_entry(db.source, last.pre.source.len).val.next = db.source.len
        /\ read_entry(db.source, last.pre.source.len).val.value =
               (IF last.op = "set" THEN to_string(last.w) ELSE NullText)
        /\ get(db, last.key) =
               (IF last.op = "set" /\ last.w # JNull THEN Ok(last.w) ELSE Err("InvalidKey"))

\* A delete of a live key has returned ReplicaError after the worker of the
\* replica panicked, and the key is gone from the parent.
ClosedQueueIsReplicaErrorWitness ==
    /\ last.op = "delete"
    /\ get(last.pre, last.key).ok
    /\ last.pre.replicas[1].worker = "panicked"
    /\ last.res = Err("ReplicaError")
    /\ get(db, last.key) = Err("InvalidKey")

\* C35: in every state reached by set and delete with a secondary index
\* registered, for every query that the planner optimises, the optimised
\* execution and the linear execution agree: both succeed with the same set
\* of offsets, or both return an error.
OptimisedAgreesWithLinear ==
    (last.op = "query" /\ last.optimised) =>
        \/ /\ execute_optimised(last.q, last.pre).ok
           /\ execute_unoptimised(last.q, last.pre, last.keys).ok
           /\ Range(execute_optimised(last.q, last.pre).val) =
                  Range(execute_unoptimised(last.q, last.pre, last.keys).val)
        \/ /\ ~execute_optimised(last.q, last.pre).ok
           /\ ~execute_unoptimised(last.q, last.pre, last.keys).ok

\* C36: query() with an ordering predicate on an indexed field returns
\* JsonError only if the field of some currently live entry is not a number;
\* a bucket with a non-numeric key that holds no live offset does not make
\* the query fail.
JsonErrorNeedsLiveEntry ==
    (last.op = "query" /\ last.res = Err("JsonError")) =>
        \E i \in DOMAIN last.q.predicates, json \in stored(last.pre) :
            /\ last.q.predicates[i].kind \in {"Gt", "Gte", "Lt", "Lte"}
            /\ get_value(last.q.predicates[i].key, json).t # "num"

\* C37: if Database::compact returns an error from any step, the primary
\* index still corresponds to the source the engine reads from: for every key
\* that was live before the call, get(k) returns what it returned before.
FailedCompactKeepsView ==
    (last.op = "compact" /\ ~last.res.ok) =>
        \A k \in live(last.pre) : get(db, k) = get(last.pre, k)

\* C38: tearing down an engine with an asynchronous replica never panics: the
\* Shutdown sentinel is enqueued and the worker, which has not panicked
\* either, is joined, also when the replica returned an error for an earlier
\* message.
TeardownNeverPanics ==
    \A i \in Async :
        db.replicas[i].teardown # "none" =>
            /\ db.replicas[i].teardown # "panicked"
            /\ db.replicas[i].worker # "panicked"
            /\ Len(db.replicas[i].sent) > 0
            /\ db.replicas[i].sent[Len(db.replicas[i].sent)].type = "Shutdown"

\* C39: every entry that a set or delete appends to the log of the parent is
\* passed to every attached replica, also when another attached replica
\* returns an error for that same write: no replica is skipped because an
\* earlier one in the list failed.
EveryReplicaReceives ==
    (last.op \in {"set", "delete"} /\ db.source.len > last.pre.source.len) =>
        \A i \in DOMAIN db.replicas :
            handed(db.replicas[i]) = Append(handed(last.pre.replicas[i]), replicated(last))

\* An offset or a length prefix of the entry at `offset` points beyond the
\* `n` bytes of the source: offset + 8 > n, or offset + 8 + length > n, the
\* sums taken in the integers.
beyond(data, offset) ==
    \/ ~word_small(offset)
    \/ word_value(offset) + U64Bytes > Len(data)
    \/ ~word_small(SubSeq(data, word_value(offset) + 1, word_value(offset) + U64Bytes))
    \/ word_value(offset) + U64Bytes +
           word_value(SubSeq(data, word_value(offset) + 1, word_value(offset) + U64Bytes)) > Len(data)

\* C40: read_entry returns an error, and neither panics nor wraps around,
\* for every 64-bit offset and every 64-bit length prefix found in the
\* source: whenever offset + 8, or offset + 8 + the decoded length, exceeds
\* the source length (also when the sum exceeds the integer width) the
\* result is an Index or an Io error, and load_indexes on such a log returns
\* a result, never a panic.
ReadEntryBoundsChecked ==
    /\ last.op = "read_entry" =>
          /\ last.res.ok \/ last.res.err \in {"Index", "Io"}
          /\ beyond(last.pre.source.data, last.offset) =>
                ~last.res.ok /\ last.res.err \in {"Index", "Io"}
    /\ last.op = "load_indexes" =>
          last.res.ok \/ last.res.err \in {"Index", "Io"}
====
